---- MODULE Spec2Model ----
(***************************************************************************)
(* A model of the configuration-to-manifest pipeline of the OTel distro    *)
(* builder: ConfigParser.parse, resolve_components, ComponentRegistry     *)
(* lookup and ManifestGenerator.generate.                                  *)
(*                                                                         *)
(* Strings are sequences of symbols.  Component names are spelled          *)
(* character by character ("a/x" is <<"a", "/", "x">>), so that            *)
(* str.split("/")[0] and sorted() are computed, not assumed.               *)
(***************************************************************************)
EXTENDS Integers, Sequences, FiniteSets, TLC

VARIABLES
    entry,       \* the entry point a run exercises: "parse", "registry" or "manifest"
    text,        \* the configuration document handed to ConfigParser(...)
    parsers,     \* parser object -> its self._config
    calls,       \* the parse() calls made so far: <<[parser, result]>>
    _registry,   \* the module global _registry of component_registry.py
    looked_up,   \* the last direct lookup: the instance's file, the arguments, the result
    in_parsed,   \* the ParsedComponents handed to resolve_components
    in_version,  \* the version handed to resolve_components
    in_custom_mappings,  \* the custom_mappings handed to resolve_components
    resolution,  \* what resolve_components returned, once it has
    gen,         \* the ManifestGenerator object, once constructed
    heap,        \* the list objects: reference -> elements
    generated,   \* the generate() calls made so far: <<[err, manifest]>>
    reparsed,    \* ConfigParser(manifest.content).parse() of one generated manifest
    job,         \* one generate_manifest_from_config call: its arguments, locals and position
    files,       \* the file system at the output path: path -> [exists, content]
    in_manifest, \* the manifest text handed to the functions of version.py
    overrides,   \* the ocb_version and supervisor_version arguments, <<>> for None
    detected,    \* what get_contrib_version_from_manifest returned or raised
    determined,  \* what determine_build_versions returned or raised
    cli,         \* one run of main(): its arguments, position, exit status and log
    plat,        \* one resolve_platforms call: its arguments and its result
    threads,     \* the threads calling get_registry(): position and locals of each
    shared,      \* the global _registry as the callers see it, the loads and calls made
    run,         \* one build() call: the stages started and completed, the outcome
    fmt,         \* one ManifestGenerator on chosen inputs and what generate() gave
    objects,     \* the ComponentInfo objects: the store, and the registry's references
    held         \* the ComponentInfo objects lookup has returned to the caller

parseVars == <<text, parsers, calls>>

registryVars == <<_registry, looked_up>>

manifestVars ==
    <<in_parsed, in_version, in_custom_mappings, resolution, gen, heap, generated, reparsed>>

fileVars == <<job, files>>

versionVars == <<in_manifest, overrides, detected, determined>>

toolVars == <<cli, plat, threads, shared, run, fmt, objects, held>>

vars == <<entry, text, parsers, calls, _registry, looked_up, in_parsed, in_version,
          in_custom_mappings, resolution, gen, heap, generated, reparsed, job, files,
          in_manifest, overrides, detected, determined, cli, plat, threads,
          shared, run, fmt, objects, held>>

(***************************************************************************)
(* Bounds of the model.                                                    *)
(***************************************************************************)
MaxEntries == 2      \* keys and references written in one document
MaxParseCalls == 2   \* parse() calls in one run
MaxParsed == 3       \* names in one ParsedComponents
MaxGenerateCalls == 2  \* generate() calls on one generator
MaxConfigKeys == 2   \* keys of the section written in a config file
MaxModules == 2      \* components in one manifest text

(***************************************************************************)
(* Python strings.                                                         *)
(***************************************************************************)
\* ord(c) for the characters the model's names are spelled with.
CodePoint(c) ==
    CASE c = "/" -> 47
      [] c = "a" -> 97
      [] c = "b" -> 98
      [] c = "x" -> 120
      [] c = "y" -> 121
      [] c = " " -> 32
      [] c = "," -> 44
      [] c = "4" -> 52
      [] c = "6" -> 54
      [] c = "8" -> 56
      [] c = "d" -> 100
      [] c = "i" -> 105
      [] c = "l" -> 108
      [] c = "m" -> 109
      [] c = "n" -> 110
      [] c = "o" -> 111
      [] c = "r" -> 114
      [] c = "s" -> 115
      [] c = "u" -> 117
      [] c = "v" -> 118
      [] c = "w" -> 119

Elems(s) == {s[i] : i \in 1..Len(s)}

\* s < t for two str values: the first differing character decides, a proper
\* prefix is smaller.
StrLess(s, t) ==
    \E i \in 1..(Len(t)) :
        /\ \A j \in 1..(i - 1) : j <= Len(s) /\ s[j] = t[j]
        /\ \/ i = Len(s) + 1
           \/ i <= Len(s) /\ CodePoint(s[i]) < CodePoint(t[i])

\* sorted(list(S)) for a set of str.
RECURSIVE Sorted(_)
Sorted(S) ==
    IF S = {} THEN <<>>
    ELSE LET m == CHOOSE x \in S : \A y \in S \ {x} : StrLess(x, y)
         IN  <<m>> \o Sorted(S \ {m})

\* The index of the first sep in s, or 0.
FirstIndex(s, sep) ==
    IF \E i \in 1..Len(s) : s[i] = sep
    THEN CHOOSE i \in 1..Len(s) : s[i] = sep /\ \A j \in 1..(i - 1) : s[j] # sep
    ELSE 0

\* s.split(sep) for a one-character sep: the list of the parts.
RECURSIVE Split(_, _)
Split(s, sep) ==
    LET i == FirstIndex(s, sep)
    IN  IF i = 0 THEN <<s>>
        ELSE <<SubSeq(s, 1, i - 1)>> \o Split(SubSeq(s, i + 1, Len(s)), sep)

\* A slip: name.rsplit("/")[0], the part before the last "/".
BaseNameBeforeLastSlash(name) ==
    LET parts == Split(name, "/")
    IN  IF Len(parts) = 1 THEN name
        ELSE SubSeq(name, 1, Len(name) - Len(parts[Len(parts)]) - 1)

\* name.split("/")[0]
BaseName(name) == Split(name, "/")[1]

\* s.replace(old, new) for a non-empty old: every occurrence, left to right.
RECURSIVE Replace(_, _, _)
Replace(s, old, new) ==
    IF Len(s) < Len(old) THEN s
    ELSE IF SubSeq(s, 1, Len(old)) = old
    THEN new \o Replace(SubSeq(s, Len(old) + 1, Len(s)), old, new)
    ELSE <<Head(s)>> \o Replace(Tail(s), old, new)

\* sub in s
Contains(s, sub) ==
    \E i \in 0..(Len(s) - Len(sub)) : SubSeq(s, i + 1, i + Len(sub)) = sub

(***************************************************************************)
(* The loaded YAML document (the value of yaml.safe_load).  A node is      *)
(* absent (the key is not written), null (the key is written with no       *)
(* value), a mapping or a list.                                            *)
(***************************************************************************)
Absent == [kind |-> "absent", keys |-> {}, items |-> <<>>]
Null == [kind |-> "null", keys |-> {}, items |-> <<>>]
Mapping(keys) == [kind |-> "map", keys |-> keys, items |-> <<>>]
List(items) == [kind |-> "seq", keys |-> {}, items |-> items]

Categories == <<"receivers", "processors", "exporters", "extensions", "connectors">>

CategorySet == Elems(Categories)

\* not x, for a node read with dict.get
Falsy(node) ==
    \/ node.kind \in {"absent", "null"}
    \/ node.kind = "map" /\ node.keys = {}
    \/ node.kind = "seq" /\ node.items = <<>>

AbsentPipeline == [kind |-> "absent", receivers |-> Absent, processors |-> Absent,
                   exporters |-> Absent]

AbsentPipelines == [kind |-> "absent", items |-> <<>>]

AbsentService == [kind |-> "absent", pipelines |-> AbsentPipelines, extensions |-> Absent]

EmptyConfig ==
    [kind |-> "map", receivers |-> Absent, processors |-> Absent, exporters |-> Absent,
     extensions |-> Absent, connectors |-> Absent, service |-> AbsentService]

\* ConfigParser.__init__: self._config = yaml.safe_load(...), {} when it is None
ParserInit(document) ==
    IF document.kind = "null" THEN EmptyConfig ELSE document

(***************************************************************************)
(* ConfigParser.parse                                                      *)
(***************************************************************************)
NoComponents ==
    [receivers |-> <<>>, processors |-> <<>>, exporters |-> <<>>,
     extensions |-> <<>>, connectors |-> <<>>]

Raised(e, warnings) == [err |-> e, components |-> NoComponents, warnings |-> warnings]

\* A slip: the test "if not section_data" left out; .keys() of None raises.
ExtractComponentNamesNoEmptyTest(config, section) ==
    LET section_data == config[section]
    IN  IF section_data.kind = "absent" THEN [err |-> "", names |-> <<>>]
        ELSE IF section_data.kind = "map"
        THEN [err |-> "", names |-> Sorted({BaseName(key) : key \in section_data.keys})]
        ELSE [err |-> "AttributeError", names |-> <<>>]

\* _extract_component_names: [err, names]
ExtractComponentNames(config, section) ==
    LET section_data == config[section]
    IN  IF Falsy(section_data) THEN [err |-> "", names |-> <<>>]
        ELSE IF section_data.kind = "map"
        THEN [err |-> "", names |-> Sorted({BaseName(key) : key \in section_data.keys})]
        ELSE [err |-> "AttributeError", names |-> <<>>]

Warning(kind, name, pipeline) == [kind |-> kind, name |-> name, pipeline |-> pipeline]

\* A slip: the receivers loop without the connector test.
RECURSIVE CheckReceiversNoConnectors(_, _, _)
CheckReceiversNoConnectors(st, refs, pipeline_name) ==
    IF refs = <<>> THEN st
    ELSE LET receiver == Head(refs)
             base_name == BaseName(receiver)
             st1 == IF base_name \notin Elems(st.components.receivers)
                    THEN [st EXCEPT !.components.receivers = Append(@, base_name),
                                    !.warnings = Append(@, Warning("receiver", receiver, pipeline_name))]
                    ELSE st
         IN  CheckReceiversNoConnectors(st1, Tail(refs), pipeline_name)

\* for receiver in pipeline_config.get("receivers", []): ...
RECURSIVE CheckReceivers(_, _, _)
CheckReceivers(st, refs, pipeline_name) ==
    IF refs = <<>> THEN st
    ELSE LET receiver == Head(refs)
             base_name == BaseName(receiver)
             add == /\ base_name \notin Elems(st.components.receivers)
                    /\ base_name \notin Elems(st.components.connectors)
             st1 == IF add
                    THEN [st EXCEPT !.components.receivers = Append(@, base_name),
                                    !.warnings = Append(@, Warning("receiver", receiver, pipeline_name))]
                    ELSE st
         IN  CheckReceivers(st1, Tail(refs), pipeline_name)

\* A slip: the processors loop with the connector test of the other two.
RECURSIVE CheckProcessorsWithConnectors(_, _, _)
CheckProcessorsWithConnectors(st, refs, pipeline_name) ==
    IF refs = <<>> THEN st
    ELSE LET processor == Head(refs)
             base_name == BaseName(processor)
             add == /\ base_name \notin Elems(st.components.processors)
                    /\ base_name \notin Elems(st.components.connectors)
             st1 == IF add
                    THEN [st EXCEPT !.components.processors = Append(@, base_name),
                                    !.warnings = Append(@, Warning("processor", processor, pipeline_name))]
                    ELSE st
         IN  CheckProcessorsWithConnectors(st1, Tail(refs), pipeline_name)

\* for processor in pipeline_config.get("processors", []): ...
RECURSIVE CheckProcessors(_, _, _)
CheckProcessors(st, refs, pipeline_name) ==
    IF refs = <<>> THEN st
    ELSE LET processor == Head(refs)
             base_name == BaseName(processor)
             add == base_name \notin Elems(st.components.processors)
             st1 == IF add
                    THEN [st EXCEPT !.components.processors = Append(@, base_name),
                                    !.warnings = Append(@, Warning("processor", processor, pipeline_name))]
                    ELSE st
         IN  CheckProcessors(st1, Tail(refs), pipeline_name)

\* for exporter in pipeline_config.get("exporters", []): ...
RECURSIVE CheckExporters(_, _, _)
CheckExporters(st, refs, pipeline_name) ==
    IF refs = <<>> THEN st
    ELSE LET exporter == Head(refs)
             base_name == BaseName(exporter)
             add == /\ base_name \notin Elems(st.components.exporters)
                    /\ base_name \notin Elems(st.components.connectors)
             st1 == IF add
                    THEN [st EXCEPT !.components.exporters = Append(@, base_name),
                                    !.warnings = Append(@, Warning("exporter", exporter, pipeline_name))]
                    ELSE st
         IN  CheckExporters(st1, Tail(refs), pipeline_name)

\* for ext in service_extensions: ...
RECURSIVE CheckExtensions(_, _)
CheckExtensions(st, refs) ==
    IF refs = <<>> THEN st
    ELSE LET ext == Head(refs)
             base_name == BaseName(ext)
             add == base_name \notin Elems(st.components.extensions)
             st1 == IF add
                    THEN [st EXCEPT !.components.extensions = Append(@, base_name),
                                    !.warnings = Append(@, Warning("extension", ext, ""))]
                    ELSE st
         IN  CheckExtensions(st1, Tail(refs))

\* The body of the loop over pipelines.items(): one pipeline.  A pipeline of
\* kind "seq" is a non-empty list.  Iterating a null list raises TypeError;
\* .get on a list raises AttributeError.
CheckPipeline(st, pipeline_name, pipeline_config) ==
    IF pipeline_config.kind \in {"absent", "null"} THEN st
    ELSE IF pipeline_config.kind = "seq" THEN [st EXCEPT !.err = "AttributeError"]
    ELSE IF /\ pipeline_config.receivers.kind = "absent"
            /\ pipeline_config.processors.kind = "absent"
            /\ pipeline_config.exporters.kind = "absent"
    THEN st
    ELSE IF pipeline_config.receivers.kind = "null" THEN [st EXCEPT !.err = "TypeError"]
    ELSE LET st1 == CheckReceivers(st, pipeline_config.receivers.items, pipeline_name)
         IN  IF pipeline_config.processors.kind = "null" THEN [st1 EXCEPT !.err = "TypeError"]
             ELSE LET st2 == CheckProcessors(st1, pipeline_config.processors.items, pipeline_name)
                  IN  IF pipeline_config.exporters.kind = "null"
                      THEN [st2 EXCEPT !.err = "TypeError"]
                      ELSE CheckExporters(st2, pipeline_config.exporters.items, pipeline_name)

RECURSIVE CheckPipelines(_, _)
CheckPipelines(st, items) ==
    IF items = <<>> \/ st.err # "" THEN st
    ELSE CheckPipelines(CheckPipeline(st, Head(items).name, Head(items).cfg), Tail(items))

\* sorted(list(set(xs)))
SortedSet(xs) == Sorted(Elems(xs))

\* A slip: the lists are left as the loops built them.
NoSortAfterAugmentation(components) == components

\* The "Sort after augmentation" lines.
SortAfterAugmentation(components) ==
    [receivers |-> SortedSet(components.receivers),
     processors |-> SortedSet(components.processors),
     exporters |-> SortedSet(components.exporters),
     extensions |-> SortedSet(components.extensions),
     connectors |-> SortedSet(components.connectors)]

\* _validate_against_service: [err, components, warnings]
ValidateAgainstService(config, components) ==
    LET service == config.service
        st0 == [err |-> "", components |-> components, warnings |-> <<>>]
    IN  IF service.kind \in {"null", "seq"} THEN Raised("AttributeError", <<>>)
        ELSE LET pipelines == IF service.kind = "absent" THEN AbsentPipelines
                              ELSE service.pipelines
             IN  IF pipelines.kind \in {"null", "seq"} THEN Raised("AttributeError", <<>>)
                 ELSE LET st1 == CheckPipelines(st0, pipelines.items)
                          service_extensions == IF service.kind = "absent" THEN Absent
                                                ELSE service.extensions
                      IN  IF st1.err # "" THEN Raised(st1.err, st1.warnings)
                          ELSE IF service_extensions.kind = "null"
                          THEN Raised("TypeError", st1.warnings)
                          ELSE LET st2 == CheckExtensions(st1, service_extensions.items)
                               IN  [st2 EXCEPT !.components = SortAfterAugmentation(@)]

\* parse(): [err, components, warnings]; the warnings are the logger.warning
\* calls made during the call.
Parse(config) ==
    LET r == ExtractComponentNames(config, "receivers")
        p == ExtractComponentNames(config, "processors")
        e == ExtractComponentNames(config, "exporters")
        x == ExtractComponentNames(config, "extensions")
        c == ExtractComponentNames(config, "connectors")
        errs == {r.err, p.err, e.err, x.err, c.err} \ {""}
    IN  IF config.kind # "map" \/ errs # {} THEN Raised("AttributeError", <<>>)
        ELSE ValidateAgainstService(config,
                 [receivers |-> r.names, processors |-> p.names, exporters |-> e.names,
                  extensions |-> x.names, connectors |-> c.names])

\* A slip: service read with self._config.pop("service", {}).
ConfigServicePopped(config) == [config EXCEPT !.service = AbsentService]

\* What parse() leaves in self._config: the document is only read.
ConfigAfterParse(config) == config

(***************************************************************************)
(* component_registry.py.  The data files are not part of the sources; the *)
(* model reads two small component files written in the format             *)
(* _load_components expects.  A module string is a sequence of symbols:    *)
(* path pieces, the characters of names and versions, and the placeholder. *)
(***************************************************************************)
A == <<"a">>

B == <<"b">>

VERSION_PLACEHOLDER == <<"__VERSION__">>

CONTRIB == "github.com/open-telemetry/opentelemetry-collector-contrib/"

CORE == "go.opentelemetry.io/collector/"

ContribTemplate(dir, name) ==
    <<CONTRIB, dir, "/">> \o name \o <<dir, " ", "v">> \o VERSION_PLACEHOLDER

CoreTemplate(dir, name) ==
    <<CORE, dir, "/">> \o name \o <<dir, " ", "v">> \o VERSION_PLACEHOLDER

PinnedTemplate(dir, name) ==
    <<CONTRIB, dir, "/">> \o name \o <<dir, " ", "v", "0", ".", "1", ".", "0">>

NoEntries == [n \in {} |-> [gomod |-> <<>>, source |-> ""]]

\* components.yaml, the default file: category -> name -> {gomod, source};
\* a source of "" is an entry without a source key.
DefaultComponentsFile ==
    [receivers |-> [n \in {A} |-> [gomod |-> ContribTemplate("receiver", n), source |-> "contrib"]],
     processors |-> [n \in {B} |-> [gomod |-> CoreTemplate("processor", n), source |-> "core"]],
     exporters |-> [n \in {A, B} |->
                      IF n = A
                      THEN [gomod |-> CoreTemplate("exporter", n), source |-> "core"]
                      ELSE [gomod |-> PinnedTemplate("exporter", n), source |-> ""]],
     extensions |-> NoEntries,
     connectors |-> [n \in {A} |-> [gomod |-> ContribTemplate("connector", n), source |-> ""]],
     providers |-> NoEntries]

\* An alternate components file, as a test passes to get_registry.
AltComponentsFile ==
    [receivers |-> [n \in {B} |-> [gomod |-> CoreTemplate("receiver", n), source |-> "core"]],
     processors |-> NoEntries,
     exporters |-> NoEntries,
     extensions |-> [n \in {A} |-> [gomod |-> ContribTemplate("extension", n), source |-> ""]],
     connectors |-> NoEntries,
     providers |-> NoEntries]

ComponentFiles == {"alt.yaml"}

\* open(components_file) and yaml.safe_load; None is the default path.
ReadComponentsFile(components_file) ==
    IF components_file = "None" THEN DefaultComponentsFile ELSE AltComponentsFile

ComponentInfo(name, gomod, source, component_type) ==
    [name |-> name, gomod |-> gomod, source |-> source, component_type |-> component_type]

NoInfo == ComponentInfo(<<>>, <<>>, "", "")

\* ComponentRegistry.__init__ and _load_components: self._components
LoadComponents(components_file) ==
    LET data == ReadComponentsFile(components_file)
    IN  [component_type \in DOMAIN data |->
            [name \in DOMAIN data[component_type] |->
                LET info == data[component_type][name]
                IN  ComponentInfo(name, info.gomod,
                                  IF info.source = "" THEN "contrib" ELSE info.source,
                                  component_type)]]

NoRegistry == [state |-> "None", file |-> "None", components |-> [t \in {} |-> NoEntries]]

\* get_registry: the value of the global _registry after the call
GetRegistry(current, components_file) ==
    IF current.state = "None" \/ components_file # "None"
    THEN [state |-> "loaded", file |-> components_file,
          components |-> LoadComponents(components_file)]
    ELSE current

SingularTypes == {"receiver", "processor", "exporter", "extension", "connector", "provider"}

\* component_type + "s" unless it ends with "s"
Plural(component_type) ==
    IF component_type \in SingularTypes
    THEN CASE component_type = "receiver" -> "receivers"
           [] component_type = "processor" -> "processors"
           [] component_type = "exporter" -> "exporters"
           [] component_type = "extension" -> "extensions"
           [] component_type = "connector" -> "connectors"
           [] component_type = "provider" -> "providers"
    ELSE component_type

\* A slip: the stored template is returned as it is.
ApplyVersionNotApplied(gomod, version) == gomod

\* _apply_version
ApplyVersion(gomod, version) ==
    IF Contains(gomod, VERSION_PLACEHOLDER)
    THEN Replace(gomod, VERSION_PLACEHOLDER, version)
    ELSE gomod

\* ComponentRegistry.lookup: [found, info]
Lookup(components, component_type, name, version) ==
    LET type == Plural(component_type)
        base_name == BaseName(name)
        known == type \in DOMAIN components /\ base_name \in DOMAIN components[type]
    IN  IF known
        THEN LET component == components[type][base_name]
             IN  [found |-> TRUE,
                  info |-> ComponentInfo(component.name,
                                         ApplyVersion(component.gomod, version),
                                         component.source, component.component_type)]
        ELSE [found |-> FALSE, info |-> NoInfo]

(***************************************************************************)
(* resolve_components.  custom_mappings is a dictionary category -> name   *)
(* -> module string; None and {} are the dictionary with no category.      *)
(* find_similar only words the logged warning and is left out.             *)
(***************************************************************************)
\* A slip: no continue after a custom mapping, the registry is asked too.
ResolveNameNoContinue(components, custom, component_type, name, version, acc) ==
    LET acc1 == IF name \in DOMAIN custom
                THEN [acc EXCEPT !.result = Append(@,
                         ComponentInfo(name, Replace(custom[name], VERSION_PLACEHOLDER, version),
                                       "custom", component_type))]
                ELSE acc
        looked_up_ == Lookup(components, component_type, name, version)
    IN  IF looked_up_.found
        THEN [acc1 EXCEPT !.result = Append(@, looked_up_.info)]
        ELSE [acc1 EXCEPT !.unresolved = Append(@, name)]

\* A slip: the registry is asked first, the custom mappings only after it.
ResolveNameRegistryFirst(components, custom, component_type, name, version, acc) ==
    LET looked_up_ == Lookup(components, component_type, name, version)
    IN  IF looked_up_.found
        THEN [acc EXCEPT !.result = Append(@, looked_up_.info)]
        ELSE IF name \in DOMAIN custom
        THEN [acc EXCEPT !.result = Append(@,
                 ComponentInfo(name, Replace(custom[name], VERSION_PLACEHOLDER, version),
                               "custom", component_type))]
        ELSE [acc EXCEPT !.unresolved = Append(@, name)]

\* A slip: an unknown name is reported and still given an entry.
ResolveNameKeepsUnknown(components, custom, component_type, name, version, acc) ==
    IF name \in DOMAIN custom
    THEN [acc EXCEPT !.result = Append(@,
              ComponentInfo(name, Replace(custom[name], VERSION_PLACEHOLDER, version),
                            "custom", component_type))]
    ELSE LET looked_up_ == Lookup(components, component_type, name, version)
         IN  IF looked_up_.found
             THEN [acc EXCEPT !.result = Append(@, looked_up_.info)]
             ELSE [acc EXCEPT !.unresolved = Append(@, name),
                              !.result = Append(@, ComponentInfo(name, name, "", component_type))]

\* The loop body of resolve_list for one name: acc is [result, unresolved].
ResolveName(components, custom, component_type, name, version, acc) ==
    IF name \in DOMAIN custom
    THEN [acc EXCEPT !.result = Append(@,
              ComponentInfo(name, Replace(custom[name], VERSION_PLACEHOLDER, version),
                            "custom", component_type))]
    ELSE LET looked_up_ == Lookup(components, component_type, name, version)
         IN  IF looked_up_.found
             THEN [acc EXCEPT !.result = Append(@, looked_up_.info)]
             ELSE [acc EXCEPT !.unresolved = Append(@, name)]

RECURSIVE ResolveNames(_, _, _, _, _, _)
ResolveNames(components, custom, component_type, names, version, acc) ==
    IF names = <<>> THEN acc
    ELSE ResolveNames(components, custom, component_type, Tail(names), version,
             ResolveName(components, custom, component_type, Head(names), version, acc))

\* resolve_list(component_type, names): [result, unresolved]
ResolveList(components, custom_mappings, component_type, names, version) ==
    LET custom == IF component_type \in DOMAIN custom_mappings
                  THEN custom_mappings[component_type]
                  ELSE [n \in {} |-> <<>>]
    IN  ResolveNames(components, custom, component_type, names, version,
                     [result |-> <<>>, unresolved |-> <<>>])

\* resolve_components(parsed, version, custom_mappings), given the
\* components of the registry get_registry() returns
ResolveComponents(components, parsed, version, custom_mappings) ==
    LET r == [c \in CategorySet |->
                 ResolveList(components, custom_mappings, c, parsed[c], version)]
    IN  [receivers |-> r.receivers.result,
         processors |-> r.processors.result,
         exporters |-> r.exporters.result,
         extensions |-> r.extensions.result,
         connectors |-> r.connectors.result,
         unresolved |-> [c \in CategorySet |-> r[c].unresolved]]

NoResolved ==
    [receivers |-> <<>>, processors |-> <<>>, exporters |-> <<>>, extensions |-> <<>>,
     connectors |-> <<>>, unresolved |-> [c \in CategorySet |-> <<>>]]

\* ResolvedComponents.has_unresolved
HasUnresolved(resolved) == \E c \in CategorySet : resolved.unresolved[c] # <<>>

(***************************************************************************)
(* manifest_generator.py.  The manifest dictionary is the ordered list of  *)
(* its keys with their values; every value is a list of fields.  The       *)
(* Bindplane components file is not part of the sources; the model reads a *)
(* small one in the format _load_bindplane_components expects.             *)
(***************************************************************************)
Digits == <<"0", "1", "2", "3", "4", "5", "6", "7", "8", "9">>

DigitValue(c) == (CHOOSE i \in 1..Len(Digits) : Digits[i] = c) - 1

\* int(s) raises ValueError
NotAnInt(s) == s = <<>> \/ \E i \in 1..Len(s) : s[i] \notin Elems(Digits)

\* int(s) for a string of decimal digits
RECURSIVE ParseInt(_)
ParseInt(s) ==
    IF s = <<>> THEN 0
    ELSE ParseInt(SubSeq(s, 1, Len(s) - 1)) * 10 + DigitValue(s[Len(s)])

\* str(n) for n >= 0
RECURSIVE IntToStr(_)
IntToStr(n) ==
    IF n < 10 THEN <<Digits[n + 1]>>
    ELSE IntToStr(n \div 10) \o <<Digits[(n % 10) + 1]>>

BINDPLANE_PLACEHOLDER == <<"__BINDPLANE_VERSION__">>

BINDPLANE == "github.com/observiq/bindplane-otel-collector/"

BindplaneTemplate(dir, name) ==
    <<BINDPLANE, dir, "/", name, " ">> \o BINDPLANE_PLACEHOLDER

\* bindplane_components.yaml: no exporters key, an empty extensions list
BindplaneComponentsFile ==
    [version |-> <<"1", ".", "7", "2", ".", "0">>,
     components |->
        [extensions |-> <<>>,
         receivers |-> <<BindplaneTemplate("receiver", "telemetrygeneratorreceiver")>>,
         processors |-> <<BindplaneTemplate("processor", "maskprocessor"),
                          BindplaneTemplate("processor", "samplingprocessor")>>],
     replaces |-> << <<"github.com/observiq/bindplane-otel-collector/internal", " => ",
                       "../internal">> >>]

NoBindplane == [loaded |-> FALSE, version |-> <<>>,
                components |-> [c \in {} |-> <<>>], replaces |-> <<>>]

\* _load_bindplane_components: the file with the version applied to every gomod
LoadBindplaneComponents ==
    LET data == BindplaneComponentsFile
        version_str == <<"v">> \o data.version
    IN  [loaded |-> TRUE, version |-> data.version,
         components |-> [c \in DOMAIN data.components |->
             [i \in 1..Len(data.components[c]) |->
                 Replace(data.components[c][i], BINDPLANE_PLACEHOLDER, version_str)]],
         replaces |-> data.replaces]

DEFAULT_PROVIDERS ==
    <<"go.opentelemetry.io/collector/confmap/provider/envprovider",
      "go.opentelemetry.io/collector/confmap/provider/fileprovider",
      "go.opentelemetry.io/collector/confmap/provider/httpprovider",
      "go.opentelemetry.io/collector/confmap/provider/httpsprovider",
      "go.opentelemetry.io/collector/confmap/provider/yamlprovider">>

DEFAULT_REPLACES ==
    << <<"github.com/googleapis/gnostic v0.5.6", " => ", "github.com/googleapis/gnostic v0.5.5">>,
       <<"github.com/docker/go-connections v0.4.1-0.20210727194412-58542c764a11", " => ",
         "github.com/docker/go-connections v0.4.0">>,
       <<"github.com/mattn/go-ieproxy", " => ", "github.com/mattn/go-ieproxy v0.0.1">>,
       <<"github.com/openshift/api", " => ",
         "github.com/openshift/api v0.0.0-20230726162818-81f778f3b3ec">> >>

\* ManifestConfig with its defaults, for a target version and the three flags
ManifestConfig(otel_version, include_providers, include_replaces, include_bindplane) ==
    [module |-> <<"github.com/custom/otelcol-distribution">>,
     name |-> <<"otelcol-custom">>,
     description |-> <<"Custom OpenTelemetry Collector distribution">>,
     version |-> <<"1", ".", "0", ".", "0">>,
     output_path |-> <<"./_build">>,
     otel_version |-> otel_version,
     include_providers |-> include_providers,
     include_replaces |-> include_replaces,
     include_bindplane |-> include_bindplane,
     conf_resolver_default_uri_scheme |-> <<"env">>]

Field(name, value) == [field |-> name, value |-> value]

Gomods(modules) == [i \in 1..Len(modules) |-> Field("gomod", modules[i])]

\* _format_components
FormatComponents(components) == Gomods([i \in 1..Len(components) |-> components[i].gomod])

\* A slip: a module is looked for in the entries of the user's components only.
AppendBindplaneResolvedOnly(result, bp_components) ==
    result \o Gomods(SelectSeq(bp_components,
                LAMBDA bp : ~\E i \in 1..Len(result) : Contains(result[i].value, bp)))

\* The loop over bp_components: append each module that is in no entry yet.
RECURSIVE AppendBindplane(_, _)
AppendBindplane(result, bp_components) ==
    IF bp_components = <<>> THEN result
    ELSE LET bp == Head(bp_components)
             dup == \E i \in 1..Len(result) : Contains(result[i].value, bp)
         IN  AppendBindplane(IF dup THEN result ELSE Append(result, Field("gomod", bp)),
                             Tail(bp_components))

\* _format_components_with_bindplane
FormatComponentsWithBindplane(components, component_type, bindplane) ==
    LET result == FormatComponents(components)
    IN  IF bindplane.loaded /\ component_type \in DOMAIN bindplane.components
        THEN AppendBindplane(result, bindplane.components[component_type])
        ELSE result

\* _format_providers raises ValueError: the minor part is not an integer
ProvidersRaise(otel_version) ==
    LET parts == Split(otel_version, ".")
    IN  Len(parts) >= 2 /\ NotAnInt(parts[2])

\* A slip: the provider version is taken 93 behind.
FormatProvidersOffset(otel_version) ==
    LET parts == Split(otel_version, ".")
        provider_minor == ParseInt(parts[2]) - 93
        provider_version ==
            IF Len(parts) >= 2
            THEN (IF provider_minor > 0
                  THEN <<"1", ".">> \o IntToStr(provider_minor) \o <<".", "0">>
                  ELSE <<"1", ".", "0", ".", "0">>)
            ELSE <<"1", ".", "0", ".", "0">>
    IN  [i \in 1..Len(DEFAULT_PROVIDERS) |->
            Field("gomod", <<DEFAULT_PROVIDERS[i], " ", "v">> \o provider_version)]

\* _format_providers
FormatProviders(otel_version) ==
    LET parts == Split(otel_version, ".")
        provider_minor == ParseInt(parts[2]) - 94
        provider_version ==
            IF Len(parts) >= 2
            THEN (IF provider_minor > 0
                  THEN <<"1", ".">> \o IntToStr(provider_minor) \o <<".", "0">>
                  ELSE <<"1", ".", "0", ".", "0">>)
            ELSE <<"1", ".", "0", ".", "0">>
    IN  [i \in 1..Len(DEFAULT_PROVIDERS) |->
            Field("gomod", <<DEFAULT_PROVIDERS[i], " ", "v">> \o provider_version)]

\* The loop over the Bindplane replaces: append each one not listed yet.
RECURSIVE AppendReplaces(_, _)
AppendReplaces(replaces, more) ==
    IF more = <<>> THEN replaces
    ELSE AppendReplaces(IF Head(more) \in Elems(replaces) THEN replaces
                        ELSE Append(replaces, Head(more)),
                        Tail(more))

\* _format_replaces
FormatReplaces(bindplane) ==
    LET replaces == AppendReplaces(DEFAULT_REPLACES,
                                   IF bindplane.loaded THEN bindplane.replaces ELSE <<>>)
    IN  [i \in 1..Len(replaces) |-> Field("", replaces[i])]

Entry(key, items) == [key |-> key, items |-> items]

\* comp_type[:-1]
Singular(comp_type) ==
    CASE comp_type = "receivers" -> "receiver"
      [] comp_type = "processors" -> "processor"
      [] comp_type = "exporters" -> "exporter"
      [] comp_type = "extensions" -> "extension"
      [] comp_type = "connectors" -> "connector"

UnresolvedWarning(comp_type, name) == [type |-> Singular(comp_type), name |-> name]

\* The "Check for unresolved components" loop: self._warnings after it.
RECURSIVE AppendWarnings(_, _, _)
AppendWarnings(warnings, unresolved, types) ==
    IF types = <<>> THEN warnings
    ELSE LET names == unresolved[Head(types)]
         IN  AppendWarnings(warnings \o [i \in 1..Len(names) |->
                                            UnresolvedWarning(Head(types), names[i])],
                            unresolved, Tail(types))

\* The warnings generate() leaves in self._warnings, found holding warnings.
WarningsAfterGenerate(warnings, resolved) ==
    IF HasUnresolved(resolved)
    THEN AppendWarnings(warnings, resolved.unresolved, Categories)
    ELSE warnings

BindplaneSections == {"extensions", "receivers", "processors", "exporters"}

\* A slip: the empty sections stay in the dictionary.
KeepEmptySections(manifest) == manifest

\* The "Remove empty sections" loop.
RemoveEmptySections(manifest) ==
    SelectSeq(manifest, LAMBDA e : ~(e.key \in BindplaneSections /\ e.items = <<>>))

\* The manifest dictionary generate() builds.
BuildManifest(resolved, config, bindplane) ==
    LET dist == Entry("dist", <<Field("module", config.module), Field("name", config.name),
                                Field("description", config.description),
                                Field("version", config.version),
                                Field("output_path", config.output_path)>>)
        conf_resolver == Entry("conf_resolver",
            <<Field("default_uri_scheme", config.conf_resolver_default_uri_scheme)>>)
        section(c) == Entry(c, FormatComponentsWithBindplane(resolved[c], c, bindplane))
        connectors == IF resolved.connectors # <<>>
                      THEN <<Entry("connectors", FormatComponents(resolved.connectors))>>
                      ELSE <<>>
        built == <<dist, conf_resolver, section("extensions"), section("receivers"),
                   section("processors"), section("exporters")>> \o connectors
        kept == RemoveEmptySections(built)
        providers == IF config.include_providers
                     THEN <<Entry("providers", FormatProviders(config.otel_version))>>
                     ELSE <<>>
        replaces == IF config.include_replaces
                    THEN <<Entry("replaces", FormatReplaces(bindplane))>>
                    ELSE <<>>
    IN  kept \o providers \o replaces

\* _generate_yaml: the header, which names the target version, and the dump
\* of the dictionary, keys in insertion order.
GenerateYaml(manifest, config) == [target_version |-> config.otel_version, document |-> manifest]

\* yaml.safe_load of a manifest text, as ConfigParser reads it: a category
\* key of the manifest is a list of {gomod: ...} entries; the manifest has
\* no service key.
SafeLoad(content) ==
    LET keys == {content.document[i].key : i \in 1..Len(content.document)}
        node(c) == IF c \in keys
                   THEN List((CHOOSE e \in Elems(content.document) : e.key = c).items)
                   ELSE Absent
    IN  [kind |-> "map", receivers |-> node("receivers"), processors |-> node("processors"),
         exporters |-> node("exporters"), extensions |-> node("extensions"),
         connectors |-> node("connectors"), service |-> AbsentService]

\* ManifestGenerator.__init__: the new object; its _warnings is a new list
NewManifestGenerator(resolved, config, warnings_ref) ==
    [exists |-> TRUE, resolved |-> resolved, config |-> config, warnings |-> warnings_ref,
     bindplane |-> IF config.include_bindplane THEN LoadBindplaneComponents ELSE NoBindplane]

\* generate(): [err, warnings (the list self._warnings after the call),
\* manifest (the GeneratedManifest, whose warnings is that same list)]
Generate(generator, warnings) ==
    IF generator.config.include_providers /\ ProvidersRaise(generator.config.otel_version)
    THEN [err |-> "ValueError", warnings |-> warnings,
          manifest |-> [content |-> GenerateYaml(<<>>, generator.config), yaml_dict |-> <<>>,
                        warnings |-> generator.warnings]]
    ELSE LET manifest == BuildManifest(generator.resolved, generator.config,
                                       generator.bindplane)
         IN  [err |-> "",
              warnings |-> WarningsAfterGenerate(warnings, generator.resolved),
              manifest |-> [content |-> GenerateYaml(manifest, generator.config),
                            yaml_dict |-> manifest,
                            warnings |-> generator.warnings]]

(***************************************************************************)
(* version.py.  A manifest text is malformed YAML or loads to a mapping    *)
(* whose sections are lists of components; a component is a mapping with   *)
(* or without a gomod key.  versions.yaml is not part of the sources: the  *)
(* table of the model has the entries the tests of version.py rely on.     *)
(***************************************************************************)
CONTRIB_PREFIX == CONTRIB

DEFAULT_VERSION == <<"0", ".", "1", "2", "2", ".", "0">>

MIN_SUPERVISOR_VERSION == <<"0", ".", "1", "2", "2", ".", "0">>

DEFAULT_GO == <<"1", ".", "2", "4", ".", "1">>

VersionSections ==
    <<"extensions", "exporters", "processors", "receivers", "connectors", "providers">>

\* load_version_mappings: data["versions"] of versions.yaml
LoadVersionMappings ==
    (<<"0", ".", "1", "2", "1", ".", "0">> :>
        [builder |-> <<"0", ".", "1", "2", "1", ".", "0">>,
         supervisor |-> <<"0", ".", "1", "2", "2", ".", "0">>,
         go |-> <<"1", ".", "2", "4", ".", "0">>])
    @@ (<<"0", ".", "1", "2", "2", ".", "0">> :>
        [builder |-> <<"0", ".", "1", "2", "2", ".", "0">>,
         supervisor |-> <<"0", ".", "1", "2", "2", ".", "0">>,
         go |-> <<"1", ".", "2", "4", ".", "1">>])
    @@ (<<"0", ".", "1", "2", "3", ".", "0">> :>
        [builder |-> <<"0", ".", "1", "2", "3", ".", "0">>,
         supervisor |-> <<"0", ".", "1", "2", "3", ".", "0">>,
         go |-> <<"1", ".", "2", "4", ".", "2">>])

\* \d+\.\d+\.\d+ matches the whole of s
IsVersionToken(s) ==
    LET parts == Split(s, ".")
    IN  Len(parts) = 3 /\ \A i \in 1..3 : ~NotAnInt(parts[i])

\* re.search(r"v(\d+\.\d+\.\d+)$", gomod): the places where a match starts
MatchStarts(gomod) ==
    {i \in 1..Len(gomod) : gomod[i] = "v" /\ IsVersionToken(SubSeq(gomod, i + 1, Len(gomod)))}

\* match.group(1)
MatchGroup(gomod) ==
    LET i == CHOOSE j \in MatchStarts(gomod) : \A k \in MatchStarts(gomod) : j <= k
    IN  SubSeq(gomod, i + 1, Len(gomod))

\* packaging.version.parse(v) for a release X.Y.Z: the tuple of its numbers
VersionParse(v) == [i \in 1..3 |-> ParseInt(Split(v, ".")[i])]

\* str(Version)
VersionStr(release) ==
    IntToStr(release[1]) \o <<".">> \o IntToStr(release[2]) \o <<".">> \o IntToStr(release[3])

\* Version.__lt__: the first differing number decides
VersionLess(r1, r2) ==
    \E i \in 1..3 : r1[i] < r2[i] /\ \A j \in 1..(i - 1) : r1[j] = r2[j]

\* A slip: max(versions), the largest string.
MaxVersionOfStrings(versions) ==
    LET code(c) == IF c = "." THEN 46 ELSE 48 + DigitValue(c)
        less(s, t) == \E i \in 1..Len(t) :
                          /\ \A j \in 1..(i - 1) : j <= Len(s) /\ s[j] = t[j]
                          /\ \/ i = Len(s) + 1
                             \/ i <= Len(s) /\ code(s[i]) < code(t[i])
    IN  CHOOSE v \in versions : \A w \in versions \ {v} : less(w, v)

\* str(max(version.parse(v) for v in versions))
MaxVersion(versions) ==
    LET releases == {VersionParse(v) : v \in versions}
    IN  VersionStr(CHOOSE r \in releases : \A q \in releases \ {r} : VersionLess(q, r))

\* A slip: the test for the contrib prefix is left out.
IsContribAnyModule(gomod) == TRUE

\* CONTRIB_PREFIX in gomod
IsContrib(gomod) == \E i \in 1..Len(gomod) : gomod[i] = CONTRIB_PREFIX

\* The versions the loop over one section adds.
SectionVersions(manifest, section) ==
    IF ~manifest.sections[section].present THEN {}
    ELSE LET components == manifest.sections[section].items
         IN  {MatchGroup(components[i].gomod) :
                  i \in {j \in 1..Len(components) :
                            /\ components[j].has_gomod
                            /\ IsContrib(components[j].gomod)
                            /\ MatchStarts(components[j].gomod) # {}}}

\* get_contrib_version_from_manifest: [err, value]
GetContribVersionFromManifest(manifest) ==
    IF manifest.kind = "malformed" THEN [err |-> "YAMLError", value |-> <<>>]
    ELSE LET versions == UNION {SectionVersions(manifest, VersionSections[i]) :
                                    i \in 1..Len(VersionSections)}
         IN  IF versions = {} THEN [err |-> "ValueError", value |-> <<>>]
             ELSE [err |-> "", value |-> MaxVersion(versions)]

BuildVersions(ocb, supervisor, go) == [ocb |-> ocb, supervisor |-> supervisor, go |-> go]

\* A slip: the table value is used whether or not an override is given.
FinalVersionFromTable(override, table_value) == table_value

\* override or table_value; None and "" are the empty string
FinalVersion(override, table_value) == IF override # <<>> THEN override ELSE table_value

\* A slip: a version the table does not list is looked up all the same.
ReferenceVersionNoFallback(contrib_version, version_mappings) == contrib_version

\* if contrib_version not in version_mappings: contrib_version = DEFAULT_VERSION
ReferenceVersion(contrib_version, version_mappings) ==
    IF contrib_version \notin DOMAIN version_mappings THEN DEFAULT_VERSION ELSE contrib_version

\* A slip: the tools are given the version of the components.
TableEntrySameAsContrib(version_mappings, contrib_version) ==
    [builder |-> contrib_version, supervisor |-> contrib_version,
     go |-> version_mappings[contrib_version].go]

\* versions = version_mappings[contrib_version]
TableEntry(version_mappings, contrib_version) == version_mappings[contrib_version]

\* A slip: only yaml.YAMLError is caught.
DetectOrDefaultOnYamlError(got) ==
    IF got.err = "YAMLError" THEN [err |-> "", value |-> DEFAULT_VERSION] ELSE got

\* try: get_contrib_version_from_manifest(...) except (ValueError,
\* yaml.YAMLError): contrib_version = DEFAULT_VERSION
DetectOrDefault(got) ==
    IF got.err \in {"ValueError", "YAMLError"} THEN [err |-> "", value |-> DEFAULT_VERSION]
    ELSE got

\* determine_build_versions: [err, value]
DetermineBuildVersions(manifest_content, ocb_version, supervisor_version) ==
    IF ocb_version # <<>> /\ supervisor_version # <<>>
    THEN [err |-> "", value |-> BuildVersions(ocb_version, supervisor_version, DEFAULT_GO)]
    ELSE LET tried == DetectOrDefault(GetContribVersionFromManifest(manifest_content))
             version_mappings == LoadVersionMappings
             contrib_version == ReferenceVersion(tried.value, version_mappings)
         IN  IF tried.err # ""
             THEN [err |-> tried.err, value |-> BuildVersions(<<>>, <<>>, <<>>)]
             ELSE IF contrib_version \notin DOMAIN version_mappings
             THEN [err |-> "KeyError", value |-> BuildVersions(<<>>, <<>>, <<>>)]
             ELSE LET versions == TableEntry(version_mappings, contrib_version)
                  IN  [err |-> "",
                       value |-> BuildVersions(FinalVersion(ocb_version, versions.builder),
                                               FinalVersion(supervisor_version, versions.supervisor),
                                               versions.go)]

(***************************************************************************)
(* The documents of the model.  A document is written from at most         *)
(* MaxEntries names: keys of the five category sections and references in  *)
(* the lists of two pipelines and of service.extensions.  Shape says how a *)
(* node with nothing in it is written: not at all, as an empty collection  *)
(* ("processors: {}") or as a bare key ("processors:").                    *)
(***************************************************************************)
Names ==
    { <<"a">>, <<"b">>, <<"a", "/", "x">>, <<"b", "/", "x", "/", "y">> }

Shapes == {"absent", "empty", "null"}

PipelineNames == <<"traces", "metrics">>

ParserIds == {"p1", "p2"}

SubsetsUpTo(S, k) == {T \in SUBSET S : Cardinality(T) <= k}

SeqsUpTo(S, k) == UNION {[1..n -> S] : n \in 0..k}

EmptyNode(shape, empty) ==
    IF shape = "absent" THEN Absent ELSE IF shape = "null" THEN Null ELSE empty

SectionNode(keys, shape) ==
    IF keys = {} THEN EmptyNode(shape, Mapping({})) ELSE Mapping(keys)

ListNode(items, shape) ==
    IF items = <<>> THEN EmptyNode(shape, List(<<>>)) ELSE List(items)

\* pl is <<receivers, processors, exporters>>
PipelineNode(pl, shape) ==
    IF pl = <<<<>>, <<>>, <<>>>>
    THEN [AbsentPipeline EXCEPT !.kind = IF shape = "empty" THEN "map" ELSE shape]
    ELSE [kind |-> "map", receivers |-> ListNode(pl[1], shape),
          processors |-> ListNode(pl[2], shape), exporters |-> ListNode(pl[3], shape)]

PipelinesNode(pls, shape) ==
    LET all == [i \in 1..Len(pls) |->
                   [name |-> PipelineNames[i], cfg |-> PipelineNode(pls[i], shape)]]
        written == SelectSeq(all, LAMBDA it : it.cfg.kind # "absent")
    IN  IF written = <<>>
        THEN [kind |-> IF shape = "empty" THEN "map" ELSE shape, items |-> <<>>]
        ELSE [kind |-> "map", items |-> written]

ServiceNode(pls, sx, shape) ==
    LET pipelines == PipelinesNode(pls, shape)
        extensions == ListNode(sx, shape)
    IN  IF pipelines.items = <<>> /\ sx = <<>>
        THEN [AbsentService EXCEPT !.kind = IF shape = "empty" THEN "map" ELSE shape]
        ELSE [kind |-> "map", pipelines |-> pipelines, extensions |-> extensions]

\* The document with the given section keys (sec, by category), pipeline
\* lists and service.extensions list; the empty text loads as None.
Document(sec, pls, sx, shape) ==
    LET service == ServiceNode(pls, sx, shape)
    IN  IF shape = "absent" /\ service.kind = "absent" /\ \A c \in CategorySet : sec[c] = {}
        THEN [EmptyConfig EXCEPT !.kind = "null"]
        ELSE [kind |-> "map",
              receivers |-> SectionNode(sec.receivers, shape),
              processors |-> SectionNode(sec.processors, shape),
              exporters |-> SectionNode(sec.exporters, shape),
              extensions |-> SectionNode(sec.extensions, shape),
              connectors |-> SectionNode(sec.connectors, shape),
              service |-> service]

(***************************************************************************)
(* The values of the variables an entry point does not use.                *)
(***************************************************************************)
NoText == [EmptyConfig EXCEPT !.kind = "null"]

NoParsers == [id \in {} |-> EmptyConfig]

NoLookup == [file |-> "None", component_type |-> "", name |-> <<>>, version |-> <<>>,
             found |-> FALSE, info |-> NoInfo]

NoCustom == [c \in {} |-> [n \in {} |-> <<>>]]

NoGenerator ==
    [exists |-> FALSE, resolved |-> NoResolved,
     config |-> ManifestConfig(<<>>, FALSE, FALSE, FALSE), warnings |-> "",
     bindplane |-> NoBindplane]

NoHeap == [ref \in {} |-> <<>>]

NoContent == [target_version |-> <<>>, document |-> <<>>]

NotReparsed == [done |-> FALSE, of |-> 0, result |-> Raised("", <<>>)]

ParseUnused ==
    /\ text = NoText
    /\ parsers = NoParsers
    /\ calls = <<>>

RegistryUnused ==
    /\ _registry = NoRegistry
    /\ looked_up = NoLookup

ManifestUnused ==
    /\ in_parsed = NoComponents
    /\ in_version = <<>>
    /\ in_custom_mappings = NoCustom
    /\ resolution = [done |-> FALSE, value |-> NoResolved]
    /\ gen = NoGenerator
    /\ heap = NoHeap
    /\ generated = <<>>
    /\ reparsed = NotReparsed

NoFiles == [path \in {} |-> [exists |-> FALSE, content |-> NoContent]]

NoJob ==
    [pc |-> "none", config_file |-> [exists |-> FALSE, document |-> NoText],
     output_path |-> "None", otel_version |-> <<>>, include_bindplane |-> FALSE,
     content |-> NoText, parsed |-> NoComponents, resolved |-> NoResolved,
     result |-> NoContent, raised |-> "", before |-> NoFiles]

FromConfigUnused ==
    /\ job = NoJob
    /\ files = NoFiles

NoSections == [s \in Elems(VersionSections) |-> [present |-> FALSE, items |-> <<>>]]

NoManifest == [kind |-> "none", sections |-> NoSections]

NoOverrides == [ocb_version |-> <<>>, supervisor_version |-> <<>>]

NotCalled == [done |-> FALSE, err |-> "", value |-> <<>>]

NotDetermined == [done |-> FALSE, err |-> "", value |-> BuildVersions(<<>>, <<>>, <<>>)]

VersionUnused ==
    /\ in_manifest = NoManifest
    /\ overrides = NoOverrides
    /\ detected = NotCalled
    /\ determined = NotDetermined

NoCli == [pc |-> "none"]

NoPlatforms ==
    [done |-> FALSE, platforms |-> <<>>, goos |-> <<>>, goarch |-> <<>>,
     result |-> <<<<>>, <<>>>>]

NoThreads ==
    [t \in {} |-> [pc |-> "none", components_file |-> "None", made |-> 0, result |-> 0,
                   seen |-> 0, loads_before |-> 0]]

NoShared == [instance |-> 0, loads |-> 0, sources |-> <<>>, calls |-> 0]

NoRun == [pc |-> "none"]

NoFmt == [of |-> "none"]

NoObjects ==
    [heap |-> <<>>, state |-> "None", file |-> "None", loads |-> 0,
     index |-> [t \in {} |-> [n \in {} |-> 0]]]

ToolsUnused ==
    /\ cli = NoCli
    /\ plat = NoPlatforms
    /\ threads = NoThreads
    /\ shared = NoShared
    /\ run = NoRun
    /\ fmt = NoFmt
    /\ objects = NoObjects
    /\ held = <<>>

(***************************************************************************)
(* Parsing: two ConfigParser objects built from one text, and parse()      *)
(* calls on them.                                                          *)
(***************************************************************************)
ParseInit ==
    \E shape \in Shapes :
    \E r \in SubsetsUpTo(Names, MaxEntries) :
    \E p \in SubsetsUpTo(Names, MaxEntries - Cardinality(r)) :
    \E e \in SubsetsUpTo(Names, MaxEntries - Cardinality(r) - Cardinality(p)) :
        LET n3 == Cardinality(r) + Cardinality(p) + Cardinality(e) IN
    \E x \in SubsetsUpTo(Names, MaxEntries - n3) :
    \E c \in SubsetsUpTo(Names, MaxEntries - n3 - Cardinality(x)) :
        LET n5 == n3 + Cardinality(x) + Cardinality(c) IN
    \E r1 \in SeqsUpTo(Names, MaxEntries - n5) :
    \E p1 \in SeqsUpTo(Names, MaxEntries - n5 - Len(r1)) :
    \E e1 \in SeqsUpTo(Names, MaxEntries - n5 - Len(r1) - Len(p1)) :
        LET n8 == n5 + Len(r1) + Len(p1) + Len(e1) IN
    \E r2 \in SeqsUpTo(Names, MaxEntries - n8) :
    \E p2 \in SeqsUpTo(Names, MaxEntries - n8 - Len(r2)) :
    \E e2 \in SeqsUpTo(Names, MaxEntries - n8 - Len(r2) - Len(p2)) :
    \E sx \in SeqsUpTo(Names, MaxEntries - n8 - Len(r2) - Len(p2) - Len(e2)) :
        /\ entry = "parse"
        /\ text = Document([receivers |-> r, processors |-> p, exporters |-> e,
                            extensions |-> x, connectors |-> c],
                           <<<<r1, p1, e1>>, <<r2, p2, e2>>>>, sx, shape)
        /\ parsers = [id \in ParserIds |-> ParserInit(text)]
        /\ calls = <<>>
        /\ RegistryUnused
        /\ ManifestUnused
        /\ FromConfigUnused
        /\ VersionUnused
        /\ ToolsUnused

\* result = parser.parse()
ParseCall(id) ==
    /\ entry = "parse"
    /\ Len(calls) < MaxParseCalls
    /\ calls' = Append(calls, [parser |-> id, result |-> Parse(parsers[id])])
    /\ parsers' = [parsers EXCEPT ![id] = ConfigAfterParse(@)]
    /\ UNCHANGED <<entry, toolVars, fileVars, versionVars, text, registryVars, manifestVars>>

ParseNext == \E id \in ParserIds : ParseCall(id)

SpecParse == ParseInit /\ [][ParseNext]_vars

(***************************************************************************)
(* Parsing documents with empty parts: every category section is written   *)
(* or not on its own ("processors:", "processors: {}", one key, or no      *)
(* section), over a service section that is absent, empty, or holds one    *)
(* pipeline; and the empty text.                                           *)
(***************************************************************************)
SectionNodes == {Absent, Null, Mapping({}), Mapping({<<"a", "/", "x">>})}

OnePipeline ==
    [kind |-> "map",
     pipelines |-> [kind |-> "map",
                    items |-> <<[name |-> "traces",
                                 cfg |-> [kind |-> "map", receivers |-> List(<<B>>),
                                          processors |-> List(<<A>>),
                                          exporters |-> List(<<B>>)]]>>],
     extensions |-> List(<<B>>)]

ServiceNodes ==
    {AbsentService,
     [AbsentService EXCEPT !.kind = "map"],
     [kind |-> "map", pipelines |-> [kind |-> "map", items |-> <<>>], extensions |-> Absent],
     OnePipeline}

EmptinessInit ==
    \E doc \in {[EmptyConfig EXCEPT !.kind = "null"]} \cup
               [kind : {"map"}, receivers : SectionNodes, processors : SectionNodes,
                exporters : SectionNodes, extensions : SectionNodes,
                connectors : SectionNodes, service : ServiceNodes] :
        /\ entry = "parse"
        /\ text = doc
        /\ parsers = [id \in ParserIds |-> ParserInit(text)]
        /\ calls = <<>>
        /\ RegistryUnused
        /\ ManifestUnused
        /\ FromConfigUnused
        /\ VersionUnused
        /\ ToolsUnused

SpecEmptiness == EmptinessInit /\ [][ParseNext]_vars

(***************************************************************************)
(* Parsing documents with parts of unexpected shape: a bare key (null) or  *)
(* a list where a mapping is expected, a bare key where a list is          *)
(* expected.                                                               *)
(***************************************************************************)
MisshapenSections == {Absent, Null, List(<<A>>), Mapping({A})}

MisshapenLists == {Absent, Null, List(<<B>>)}

MisshapenPipelines ==
    {[AbsentPipeline EXCEPT !.kind = "null"], [AbsentPipeline EXCEPT !.kind = "seq"]} \cup
    [kind : {"map"}, receivers : MisshapenLists, processors : {Absent},
     exporters : MisshapenLists]

MisshapenServices ==
    {AbsentService, [AbsentService EXCEPT !.kind = "null"],
     [AbsentService EXCEPT !.kind = "seq"]} \cup
    [kind : {"map"},
     pipelines : {AbsentPipelines, [AbsentPipelines EXCEPT !.kind = "null"],
                  [AbsentPipelines EXCEPT !.kind = "seq"]} \cup
                 {[kind |-> "map", items |-> <<[name |-> "traces", cfg |-> cfg]>>] :
                     cfg \in MisshapenPipelines},
     extensions : {Absent, Null, List(<<A>>)}]

MisshapenInit ==
    \E doc \in [kind : {"map"}, receivers : MisshapenSections, processors : {Absent},
                exporters : {Absent, Mapping({B})}, extensions : {Absent},
                connectors : MisshapenSections, service : MisshapenServices] :
        /\ entry = "parse"
        /\ text = doc
        /\ parsers = [id \in ParserIds |-> ParserInit(text)]
        /\ calls = <<>>
        /\ RegistryUnused
        /\ ManifestUnused
        /\ FromConfigUnused
        /\ VersionUnused
        /\ ToolsUnused

SpecMisshapen == MisshapenInit /\ [][ParseNext]_vars

(***************************************************************************)
(* The registry: get_registry() and direct lookups on the instance it      *)
(* returned.                                                               *)
(***************************************************************************)
V0_121_0 == <<"0", ".", "1", "2", "1", ".", "0">>

V0_122_0 == <<"0", ".", "1", "2", "2", ".", "0">>

Versions == {V0_121_0, V0_122_0}

LookupTypes == CategorySet \cup SingularTypes \cup {"providers"}

RegistryInit ==
    /\ entry = "registry"
    /\ RegistryUnused
    /\ ParseUnused
    /\ ManifestUnused
    /\ FromConfigUnused
    /\ VersionUnused
    /\ ToolsUnused

\* get_registry(components_file)
GetRegistryCall(components_file) ==
    /\ entry = "registry"
    /\ _registry' = GetRegistry(_registry, components_file)
    /\ UNCHANGED <<entry, toolVars, fileVars, versionVars, looked_up, parseVars, manifestVars>>

\* registry.lookup(component_type, name, version) on the current instance
LookupCall(component_type, name, v) ==
    /\ entry = "registry"
    /\ _registry.state = "loaded"
    /\ LET r == Lookup(_registry.components, component_type, name, v)
       IN  looked_up' = [file |-> _registry.file, component_type |-> component_type,
                         name |-> name, version |-> v, found |-> r.found, info |-> r.info]
    /\ UNCHANGED <<entry, toolVars, fileVars, versionVars, _registry, parseVars, manifestVars>>

RegistryNext ==
    \/ \E f \in ComponentFiles \cup {"None"} : GetRegistryCall(f)
    \/ \E t \in LookupTypes, n \in Names, v \in Versions : LookupCall(t, n, v)

SpecRegistry == RegistryInit /\ [][RegistryNext]_vars

(***************************************************************************)
(* Resolution and generation: resolve_components on a ParsedComponents of  *)
(* at most MaxParsed base names, then one ManifestGenerator and generate() *)
(* calls on it.                                                            *)
(***************************************************************************)
ParsedNames == {A, B}

\* The lists without repetition over S, of at most k elements.
ListsUpTo(S, k) ==
    {s \in SeqsUpTo(S, k) : \A i, j \in 1..Len(s) : s[i] = s[j] => i = j}

CustomTemplate == <<"github.com/my/custom/component", " ">> \o VERSION_PLACEHOLDER

\* No custom mappings, or one override.
CustomChoices ==
    {NoCustom} \cup
    {[c \in {category} |-> [n \in {name} |-> CustomTemplate]] :
        category \in {"receivers", "exporters", "extensions"}, name \in ParsedNames}

BadVersion == <<"0", ".", "x", ".", "0">>

\* The configurations of the model: the defaults, one flag changed at a
\* time, and a target version whose minor part is no number.
GeneratorConfigs(v) ==
    {ManifestConfig(v, TRUE, TRUE, TRUE),
     ManifestConfig(v, TRUE, TRUE, FALSE),
     ManifestConfig(v, FALSE, FALSE, TRUE),
     ManifestConfig(BadVersion, TRUE, TRUE, TRUE)}

ManifestInit ==
    \E r \in ListsUpTo(ParsedNames, MaxParsed) :
    \E p \in ListsUpTo(ParsedNames, MaxParsed - Len(r)) :
    \E e \in ListsUpTo(ParsedNames, MaxParsed - Len(r) - Len(p)) :
    \E x \in ListsUpTo(ParsedNames, MaxParsed - Len(r) - Len(p) - Len(e)) :
    \E c \in ListsUpTo(ParsedNames, MaxParsed - Len(r) - Len(p) - Len(e) - Len(x)) :
    \E v \in Versions :
    \E custom \in CustomChoices :
        /\ entry = "manifest"
        /\ in_parsed = [receivers |-> r, processors |-> p, exporters |-> e,
                     extensions |-> x, connectors |-> c]
        /\ in_version = v
        /\ in_custom_mappings = custom
        /\ resolution = [done |-> FALSE, value |-> NoResolved]
        /\ gen = NoGenerator
        /\ heap = NoHeap
        /\ generated = <<>>
        /\ reparsed = NotReparsed
        /\ ParseUnused
        /\ RegistryUnused
        /\ FromConfigUnused
        /\ VersionUnused
        /\ ToolsUnused

\* resolved = resolve_components(parsed, version, custom_mappings)
ResolveCall ==
    /\ entry = "manifest"
    /\ ~resolution.done
    /\ _registry' = GetRegistry(_registry, "None")
    /\ resolution' = [done |-> TRUE,
                      value |-> ResolveComponents(_registry'.components, in_parsed, in_version,
                                                  in_custom_mappings)]
    /\ UNCHANGED <<entry, toolVars, fileVars, versionVars, looked_up, parseVars, in_parsed, in_version, in_custom_mappings,
                   gen, heap, generated, reparsed>>

\* generator = ManifestGenerator(resolved, config)
NewGenerator(config) ==
    /\ entry = "manifest"
    /\ resolution.done
    /\ ~gen.exists
    /\ gen' = NewManifestGenerator(resolution.value, config, "warnings1")
    /\ heap' = ("warnings1" :> <<>>)
    /\ UNCHANGED <<entry, toolVars, fileVars, versionVars, registryVars, parseVars, in_parsed, in_version, in_custom_mappings,
                   resolution, generated, reparsed>>

\* generator.generate()
GenerateCall ==
    /\ entry = "manifest"
    /\ gen.exists
    /\ Len(generated) < MaxGenerateCalls
    /\ LET g == Generate(gen, heap[gen.warnings])
       IN  /\ heap' = [heap EXCEPT ![gen.warnings] = g.warnings]
           /\ generated' = Append(generated, [err |-> g.err, manifest |-> g.manifest])
    /\ UNCHANGED <<entry, toolVars, fileVars, versionVars, registryVars, parseVars, in_parsed, in_version, in_custom_mappings,
                   resolution, gen, reparsed>>

\* ConfigParser(manifest.content).parse(), for the manifest of call k
ReparseCall(k) ==
    /\ entry = "manifest"
    /\ ~reparsed.done
    /\ k \in 1..Len(generated)
    /\ generated[k].err = ""
    /\ reparsed' = [done |-> TRUE, of |-> k,
                    result |-> Parse(ParserInit(SafeLoad(generated[k].manifest.content)))]
    /\ UNCHANGED <<entry, toolVars, fileVars, versionVars, registryVars, parseVars, in_parsed, in_version, in_custom_mappings,
                   resolution, gen, heap, generated>>

ManifestNext ==
    \/ ResolveCall
    \/ \E config \in GeneratorConfigs(in_version) : NewGenerator(config)
    \/ GenerateCall
    \/ \E k \in 1..MaxGenerateCalls : ReparseCall(k)

SpecManifest == ManifestInit /\ [][ManifestNext]_vars

(***************************************************************************)
(* generate_manifest_from_config(config_path, output_path, ...): one call, *)
(* statement by statement, and the file at the output path.                *)
(***************************************************************************)
OutputPaths == {"out.yaml"}

OldContent == [target_version |-> <<"old">>, document |-> <<>>]

Missing == [exists |-> FALSE, content |-> NoContent]

\* The files a config path may name: none, or a document of one category
\* section and one pipeline with a receivers list.
FromConfigInit ==
    \E shape \in Shapes :
    \E c \in CategorySet :
    \E keys \in SubsetsUpTo({A, B, <<"a", "/", "x">>}, MaxConfigKeys) :
    \E r1 \in SeqsUpTo(ParsedNames, 1) :
    \E there \in BOOLEAN :
    \E v \in {V0_122_0, BadVersion} :
    \E bindplane \in BOOLEAN :
    \E out \in {[path |-> "None", before |-> Missing]}
               \cup {[path |-> path, before |-> before] :
                        path \in OutputPaths,
                        before \in {Missing, [exists |-> TRUE, content |-> OldContent]}} :
        /\ entry = "from_config"
        /\ job = [NoJob EXCEPT
                    !.pc = "start",
                    !.config_file =
                        [exists |-> there,
                         document |->
                            IF there
                            THEN Document([cat \in CategorySet |-> IF cat = c THEN keys ELSE {}],
                                          <<<<r1, <<>>, <<>>>>, <<<<>>, <<>>, <<>>>>>>, <<>>, shape)
                            ELSE NoText],
                    !.output_path = out.path,
                    !.otel_version = v,
                    !.include_bindplane = bindplane,
                    !.before = [path \in OutputPaths |->
                                   IF path = out.path THEN out.before ELSE Missing]]
        /\ files = [path \in OutputPaths |-> IF path = out.path THEN out.before ELSE Missing]
        /\ (there \/ (shape = "absent" /\ c = "receivers" /\ keys = {} /\ r1 = <<>>))
        /\ ParseUnused
        /\ RegistryUnused
        /\ ManifestUnused
        /\ VersionUnused
        /\ ToolsUnused

\* A slip: the output file is opened for writing before the manifest is
\* generated.
FilesOpenedBeforeGenerate(fs, output_path) ==
    IF output_path # "None"
    THEN [fs EXCEPT ![output_path] = [exists |-> TRUE, content |-> NoContent]]
    ELSE fs

\* The file system after generate_manifest(...): it writes no file.
FilesAfterGenerate(fs, output_path) == fs

\* with open(output_path, "w") as f: f.write(result.content)
WriteFile(fs, output_path, content) ==
    [fs EXCEPT ![output_path] = [exists |-> TRUE, content |-> content]]

\* parse_config_file: open(config_path) and f.read()
ReadConfigFile ==
    /\ entry = "from_config"
    /\ job.pc = "start"
    /\ job' = IF job.config_file.exists
              THEN [job EXCEPT !.pc = "read", !.content = job.config_file.document]
              ELSE [job EXCEPT !.pc = "raised", !.raised = "FileNotFoundError"]
    /\ UNCHANGED <<entry, toolVars, versionVars, files, parseVars, registryVars, manifestVars>>

\* parse_config_file: ConfigParser(content).parse()
ParseConfigFile ==
    /\ entry = "from_config"
    /\ job.pc = "read"
    /\ LET r == Parse(ParserInit(job.content))
       IN  job' = IF r.err = ""
                  THEN [job EXCEPT !.pc = "parsed", !.parsed = r.components]
                  ELSE [job EXCEPT !.pc = "raised", !.raised = r.err]
    /\ UNCHANGED <<entry, toolVars, versionVars, files, parseVars, registryVars, manifestVars>>

\* parse_and_resolve: resolve_components(parsed, version, custom_mappings)
ResolveParsed ==
    /\ entry = "from_config"
    /\ job.pc = "parsed"
    /\ _registry' = GetRegistry(_registry, "None")
    /\ job' = [job EXCEPT !.pc = "resolved",
                          !.resolved = ResolveComponents(_registry'.components, job.parsed,
                                                         job.otel_version, NoCustom)]
    /\ UNCHANGED <<entry, toolVars, versionVars, files, parseVars, looked_up, manifestVars>>

\* result = generate_manifest(resolved=resolved, ..., otel_version=otel_version,
\*                            include_bindplane=include_bindplane)
GenerateManifest ==
    /\ entry = "from_config"
    /\ job.pc = "resolved"
    /\ LET config == ManifestConfig(job.otel_version, TRUE, TRUE, job.include_bindplane)
           g == Generate(NewManifestGenerator(job.resolved, config, "warnings1"), <<>>)
       IN  job' = IF g.err = ""
                  THEN [job EXCEPT !.pc = "generated", !.result = g.manifest.content]
                  ELSE [job EXCEPT !.pc = "raised", !.raised = g.err]
    /\ files' = FilesAfterGenerate(files, job.output_path)
    /\ UNCHANGED <<entry, toolVars, versionVars, parseVars, registryVars, manifestVars>>

\* if output_path: write result.content; return result
WriteManifest ==
    /\ entry = "from_config"
    /\ job.pc = "generated"
    /\ job' = [job EXCEPT !.pc = "returned"]
    /\ files' = IF job.output_path # "None"
                THEN WriteFile(files, job.output_path, job.result)
                ELSE files
    /\ UNCHANGED <<entry, toolVars, versionVars, parseVars, registryVars, manifestVars>>

FromConfigNext ==
    \/ ReadConfigFile
    \/ ParseConfigFile
    \/ ResolveParsed
    \/ GenerateManifest
    \/ WriteManifest

SpecFromConfig == FromConfigInit /\ [][FromConfigNext]_vars

(***************************************************************************)
(* version.py: one manifest text of at most MaxModules components, and the *)
(* two functions called on it.                                             *)
(***************************************************************************)
V0_9_0 == <<"0", ".", "9", ".", "0">>

V0_123_0 == <<"0", ".", "1", "2", "3", ".", "0">>

\* The gomod lines of the model: contrib modules of three versions, a core
\* module of a higher version, and a contrib module without a version.
ModuleLines ==
    {<<CONTRIB, "extension/basicauthextension", " ", "v">> \o V0_121_0,
     <<CONTRIB, "exporter/fileexporter", " ", "v">> \o V0_122_0,
     <<CONTRIB, "receiver/filelogreceiver", " ", "v">> \o V0_9_0,
     <<CORE, "processor/batchprocessor", " ", "v">> \o V0_123_0,
     <<CONTRIB, "processor/attributesprocessor", " ", "l", "a", "t", "e", "s", "t">>}

\* A component is {gomod: line} or a mapping without a gomod key.
ManifestComponents ==
    {[has_gomod |-> TRUE, gomod |-> line] : line \in ModuleLines}
    \cup {[has_gomod |-> FALSE, gomod |-> <<>>]}

\* The list of the elements of a set, in some order.
RECURSIVE ListOf(_)
ListOf(S) ==
    IF S = {} THEN <<>>
    ELSE LET x == CHOOSE y \in S : TRUE IN <<x>> \o ListOf(S \ {x})

\* The manifest written from a set of <<section, component>> pairs.
ManifestOfPairs(pairs) ==
    [kind |-> "map",
     sections |-> [s \in Elems(VersionSections) |->
                      LET items == {pr[2] : pr \in {q \in pairs : q[1] = s}}
                      IN  [present |-> items # {}, items |-> ListOf(items)]]]

MalformedManifest == [kind |-> "malformed", sections |-> NoSections]

OverrideChoices == {<<>>, V0_123_0}

VersionInit ==
    \E pairs \in {Elems(q) : q \in SeqsUpTo(Elems(VersionSections) \X ManifestComponents,
                                             MaxModules)} :
    \E malformed \in BOOLEAN :
    \E ocb_version \in OverrideChoices :
    \E supervisor_version \in OverrideChoices :
        /\ entry = "version"
        /\ malformed => pairs = {}
        /\ in_manifest = IF malformed THEN MalformedManifest ELSE ManifestOfPairs(pairs)
        /\ overrides = [ocb_version |-> ocb_version, supervisor_version |-> supervisor_version]
        /\ detected = NotCalled
        /\ determined = NotDetermined
        /\ ParseUnused
        /\ RegistryUnused
        /\ ManifestUnused
        /\ FromConfigUnused
        /\ ToolsUnused

\* get_contrib_version_from_manifest(manifest_content)
GetContribVersionCall ==
    /\ entry = "version"
    /\ ~detected.done
    /\ LET r == GetContribVersionFromManifest(in_manifest)
       IN  detected' = [done |-> TRUE, err |-> r.err, value |-> r.value]
    /\ UNCHANGED <<entry, toolVars, in_manifest, overrides, determined, fileVars, parseVars,
                   registryVars, manifestVars>>

\* determine_build_versions(manifest_content, ocb_version, supervisor_version)
DetermineBuildVersionsCall ==
    /\ entry = "version"
    /\ ~determined.done
    /\ LET r == DetermineBuildVersions(in_manifest, overrides.ocb_version,
                                       overrides.supervisor_version)
       IN  determined' = [done |-> TRUE, err |-> r.err, value |-> r.value]
    /\ UNCHANGED <<entry, toolVars, in_manifest, overrides, detected, fileVars, parseVars,
                   registryVars, manifestVars>>

VersionNext == GetContribVersionCall \/ DetermineBuildVersionsCall

SpecVersion == VersionInit /\ [][VersionNext]_vars

(***************************************************************************)
(* main(): the command line of the builder (builder/src/main.py) and of    *)
(* the hub builder (src/main.py).  What open(), generate_from_config() and *)
(* the body of build.build() do is given with the run: "ok", "True",       *)
(* "False" or the name of the exception raised.                            *)
(***************************************************************************)
PipelineUnused ==
    /\ ParseUnused
    /\ RegistryUnused
    /\ ManifestUnused
    /\ FromConfigUnused
    /\ VersionUnused

Programs == {"builder", "hub"}

FileErrors == {"FileNotFoundError", "PermissionError"}

BuildErrors == {"ValueError", "RuntimeError"}

ReadOutcomes == {"ok", "IsADirectoryError"} \cup FileErrors \cup BuildErrors

GenerateOutcomes == {"ok", "YAMLError"} \cup FileErrors \cup BuildErrors

BuildOutcomes == {"True", "False", "KeyError"} \cup FileErrors \cup BuildErrors

\* sys.exit(status)
Exit(c, status) == [c EXCEPT !.pc = "exited", !.status = status]

\* A slip: the handlers log and return, without sys.exit(1).
ExceptNoExit(c, e) ==
    IF e \in FileErrors THEN Exit([c EXCEPT !.errors = Append(@, "File error")], 0)
    ELSE IF e \in BuildErrors THEN Exit([c EXCEPT !.errors = Append(@, "Build failed")], 0)
    ELSE Exit([c EXCEPT !.uncaught = e], 1)

\* The two except clauses of main(); an exception they do not name leaves
\* main() and the interpreter ends with status 1.
Except(c, e) ==
    IF e \in FileErrors THEN Exit([c EXCEPT !.errors = Append(@, "File error")], 1)
    ELSE IF e \in BuildErrors THEN Exit([c EXCEPT !.errors = Append(@, "Build failed")], 1)
    ELSE Exit([c EXCEPT !.uncaught = e], 1)

\* A slip: sys.exit(0) whatever build returned.
ExitStatusAlwaysZero(success) == 0

\* sys.exit(0 if success else 1)
ExitStatus(success) == IF success = "True" THEN 0 ELSE 1

\* build.build(...) as main() calls it: the builder passes the keyword
\* parallelism, which build() does not take, and the call raises TypeError
\* before the body runs; the hub passes the four arguments build() takes.
BuildCall(program, body) == IF program = "builder" THEN "TypeError" ELSE body

MainInit ==
    \E program \in Programs :
    \E from_config \in IF program = "builder" THEN BOOLEAN ELSE {FALSE} :
    \E generate_only \in IF program = "builder" THEN BOOLEAN ELSE {FALSE} :
    \E read \in ReadOutcomes, made \in GenerateOutcomes, built \in BuildOutcomes :
        /\ entry = "main"
        /\ cli = [pc |-> "start", program |-> program, from_config |-> from_config,
                  generate_only |-> generate_only, read |-> read, made |-> made,
                  built |-> built, status |-> -1, errors |-> <<>>, uncaught |-> "",
                  build_called |-> FALSE]
        /\ plat = NoPlatforms
        /\ threads = NoThreads
        /\ shared = NoShared
        /\ run = NoRun
        /\ fmt = NoFmt
        /\ objects = NoObjects
        /\ held = <<>>
        /\ PipelineUnused

\* with open(args.manifest, "r") as f: manifest_content = f.read()
MainReadManifest ==
    /\ entry = "main"
    /\ cli.pc = "start"
    /\ ~cli.from_config
    /\ cli' = IF cli.read = "ok" THEN [cli EXCEPT !.pc = "have_manifest"]
              ELSE Except(cli, cli.read)
    /\ UNCHANGED <<entry, plat, threads, shared, run, fmt, objects, held, parseVars, registryVars,
                   manifestVars, fileVars, versionVars>>

\* manifest_content = generate_from_config(...); if args.generate_only: sys.exit(0)
MainGenerateFromConfig ==
    /\ entry = "main"
    /\ cli.pc = "start"
    /\ cli.from_config
    /\ cli' = IF cli.made # "ok" THEN Except(cli, cli.made)
              ELSE IF cli.generate_only THEN Exit(cli, 0)
              ELSE [cli EXCEPT !.pc = "have_manifest"]
    /\ UNCHANGED <<entry, plat, threads, shared, run, fmt, objects, held, parseVars, registryVars,
                   manifestVars, fileVars, versionVars>>

\* success = build.build(...); sys.exit(0 if success else 1)
MainBuild ==
    /\ entry = "main"
    /\ cli.pc = "have_manifest"
    /\ LET outcome == BuildCall(cli.program, cli.built)
           called == [cli EXCEPT !.build_called = TRUE]
       IN  cli' = IF outcome \in {"True", "False"} THEN Exit(called, ExitStatus(outcome))
                  ELSE Except(called, outcome)
    /\ UNCHANGED <<entry, plat, threads, shared, run, fmt, objects, held, parseVars, registryVars,
                   manifestVars, fileVars, versionVars>>

MainNext == MainReadManifest \/ MainGenerateFromConfig \/ MainBuild

SpecMain == MainInit /\ [][MainNext]_vars

(***************************************************************************)
(* platforms.py                                                            *)
(***************************************************************************)
\* None, where an argument is Optional[str]
None == <<"None">>

LINUX == <<"l", "i", "n", "u", "x">>

DARWIN == <<"d", "a", "r", "w", "i", "n">>

WINDOWS == <<"w", "i", "n", "d", "o", "w", "s">>

AMD64 == <<"a", "m", "d", "6", "4">>

ARM64 == <<"a", "r", "m", "6", "4">>

\* not s, for an Optional[str]
Not(s) == s = None \/ s = <<>>

\* s.strip(), for the blank " "
RECURSIVE Strip(_)
Strip(s) ==
    IF s = <<>> THEN s
    ELSE IF Head(s) = " " THEN Strip(Tail(s))
    ELSE IF s[Len(s)] = " " THEN Strip(SubSeq(s, 1, Len(s) - 1))
    ELSE s

\* The test of the loop of parse_platforms: the platform is kept.
Accepted(platform) ==
    /\ Strip(platform) # <<>>
    /\ Len(Split(platform, "/")) = 2
    /\ Strip(Split(platform, "/")[1]) # <<>>
    /\ Strip(Split(platform, "/")[2]) # <<>>

\* A slip: the lists in the order of the platforms, not sorted.
RECURSIVE PartsInOrder(_, _)
PartsInOrder(entries, k) ==
    IF entries = <<>> THEN <<>>
    ELSE IF Accepted(Head(entries))
    THEN LET part == Strip(Split(Head(entries), "/")[k])
             rest == PartsInOrder(Tail(entries), k)
         IN  <<part>> \o SelectSeq(rest, LAMBDA q : q # part)
    ELSE PartsInOrder(Tail(entries), k)

ParsePlatformsInOrder(platforms) ==
    IF Not(platforms) THEN <<<<>>, <<>>>>
    ELSE <<PartsInOrder(Split(platforms, ","), 1), PartsInOrder(Split(platforms, ","), 2)>>

\* parse_platforms: <<os list, arch list>>
ParsePlatforms(platforms) ==
    IF Not(platforms) THEN <<<<>>, <<>>>>
    ELSE LET kept == {platform \in Elems(Split(platforms, ",")) : Accepted(platform)}
         IN  <<Sorted({Strip(Split(platform, "/")[1]) : platform \in kept}),
               Sorted({Strip(Split(platform, "/")[2]) : platform \in kept})>>

\* A slip: platforms is asked first, goos and goarch after it.
ResolvePlatformsPlatformsFirst(platforms, goos, goarch) ==
    IF ~Not(platforms)
    THEN LET parsed == ParsePlatforms(platforms)
         IN  <<IF parsed[1] # <<>> THEN parsed[1] ELSE <<LINUX>>,
               IF parsed[2] # <<>> THEN parsed[2] ELSE <<ARM64>>>>
    ELSE IF goos # None \/ goarch # None
    THEN <<IF ~Not(goos) THEN Split(goos, ",") ELSE <<LINUX>>,
           IF ~Not(goarch) THEN Split(goarch, ",") ELSE <<ARM64>>>>
    ELSE <<<<LINUX>>, <<ARM64>>>>

\* resolve_platforms: <<os list, arch list>>
ResolvePlatforms(platforms, goos, goarch) ==
    IF goos # None \/ goarch # None
    THEN <<IF ~Not(goos) THEN Split(goos, ",") ELSE <<LINUX>>,
           IF ~Not(goarch) THEN Split(goarch, ",") ELSE <<ARM64>>>>
    ELSE IF ~Not(platforms)
    THEN LET parsed == ParsePlatforms(platforms)
         IN  <<IF parsed[1] # <<>> THEN parsed[1] ELSE <<LINUX>>,
               IF parsed[2] # <<>> THEN parsed[2] ELSE <<ARM64>>>>
    ELSE <<<<LINUX>>, <<ARM64>>>>

(***************************************************************************)
(* One resolve_platforms call.  A platforms argument is written from at    *)
(* most MaxPlatformEntries entries, well formed or not.                    *)
(***************************************************************************)
MaxPlatformEntries == 2

PlatformEntries ==
    {LINUX \o <<"/">> \o AMD64, DARWIN \o <<"/">> \o ARM64, LINUX \o <<"/">> \o ARM64,
     LINUX, LINUX \o <<"/">>, <<"/">> \o AMD64, LINUX \o <<"/">> \o AMD64 \o <<"/", "v", "8">>,
     <<>>, <<" ">>, <<" ">> \o DARWIN \o <<"/">> \o AMD64 \o <<" ">>,
     LINUX \o <<"/", " ">>}

\* ",".join(parts)
RECURSIVE Join(_)
Join(parts) ==
    IF Len(parts) = 1 THEN parts[1]
    ELSE parts[1] \o <<",">> \o Join(Tail(parts))

PlatformsArguments ==
    {None} \cup {Join(parts) : parts \in UNION {[1..n -> PlatformEntries] :
                                                    n \in 1..MaxPlatformEntries}}

GoosArguments == {None, <<>>, WINDOWS, LINUX, WINDOWS \o <<",">> \o DARWIN}

GoarchArguments == {None, <<>>, AMD64, ARM64 \o <<",">> \o AMD64}

PlatformsInit ==
    \E platforms \in PlatformsArguments, goos \in GoosArguments, goarch \in GoarchArguments :
        /\ entry = "platforms"
        /\ plat = [done |-> FALSE, platforms |-> platforms, goos |-> goos,
                   goarch |-> goarch, result |-> <<<<>>, <<>>>>]
        /\ cli = NoCli
        /\ threads = NoThreads
        /\ shared = NoShared
        /\ run = NoRun
        /\ fmt = NoFmt
        /\ objects = NoObjects
        /\ held = <<>>
        /\ PipelineUnused

\* goos, goarch = resolve_platforms(platforms=..., goos=..., goarch=...)
ResolvePlatformsCall ==
    /\ entry = "platforms"
    /\ ~plat.done
    /\ plat' = [plat EXCEPT !.done = TRUE,
                            !.result = ResolvePlatforms(plat.platforms, plat.goos, plat.goarch)]
    /\ UNCHANGED <<entry, cli, threads, shared, run, fmt, objects, held, parseVars, registryVars,
                   manifestVars, fileVars, versionVars>>

PlatformsNext == ResolvePlatformsCall

SpecPlatforms == PlatformsInit /\ [][PlatformsNext]_vars

(***************************************************************************)
(* Threads calling get_registry() with no components_file while the global *)
(* _registry is None.  A registry object is named by the number of the     *)
(* load that built it; 0 is None.  A step is one statement of get_registry.*)
(***************************************************************************)
MaxThreads == 3

ThreadIds == 1..MaxThreads

\* A slip: an instance that exists is always reused.
MustLoadOnlyWhenNone(instance, components_file) == instance = 0

\* _registry is None or components_file is not None
MustLoad(instance, components_file) == instance = 0 \/ components_file # "None"

ThreadsInit ==
    /\ entry = "threads"
    /\ threads = [t \in ThreadIds |->
                      [pc |-> "check", components_file |-> "None", made |-> 0,
                       result |-> 0, seen |-> 0, loads_before |-> 0]]
    /\ shared = NoShared
    /\ cli = NoCli
    /\ plat = NoPlatforms
    /\ run = NoRun
    /\ fmt = NoFmt
    /\ objects = NoObjects
    /\ held = <<>>
    /\ PipelineUnused

\* if _registry is None or components_file is not None:
CheckRegistry(t) ==
    /\ entry \in {"threads", "singleton"}
    /\ threads[t].pc = "check"
    /\ threads' = [threads EXCEPT ![t].pc =
                      IF MustLoad(shared.instance, threads[t].components_file)
                      THEN "construct" ELSE "return"]
    /\ UNCHANGED <<entry, shared, cli, plat, run, fmt, objects, held, parseVars, registryVars,
                   manifestVars, fileVars, versionVars>>

\* ComponentRegistry(components_file): the file is loaded
ConstructRegistry(t) ==
    /\ entry \in {"threads", "singleton"}
    /\ threads[t].pc = "construct"
    /\ shared' = [shared EXCEPT !.loads = @ + 1,
                                !.sources = Append(@, threads[t].components_file)]
    /\ threads' = [threads EXCEPT ![t].pc = "assign", ![t].made = shared.loads + 1]
    /\ UNCHANGED <<entry, cli, plat, run, fmt, objects, held, parseVars, registryVars,
                   manifestVars, fileVars, versionVars>>

\* _registry = <the new object>
AssignRegistry(t) ==
    /\ entry \in {"threads", "singleton"}
    /\ threads[t].pc = "assign"
    /\ shared' = [shared EXCEPT !.instance = threads[t].made]
    /\ threads' = [threads EXCEPT ![t].pc = "return"]
    /\ UNCHANGED <<entry, cli, plat, run, fmt, objects, held, parseVars, registryVars,
                   manifestVars, fileVars, versionVars>>

\* return _registry
ReturnRegistry(t) ==
    /\ entry \in {"threads", "singleton"}
    /\ threads[t].pc = "return"
    /\ threads' = [threads EXCEPT ![t].pc = "done", ![t].result = shared.instance]
    /\ UNCHANGED <<entry, shared, cli, plat, run, fmt, objects, held, parseVars, registryVars,
                   manifestVars, fileVars, versionVars>>

ThreadsNext ==
    \E t \in ThreadIds :
        \/ CheckRegistry(t)
        \/ ConstructRegistry(t)
        \/ AssignRegistry(t)
        \/ ReturnRegistry(t)

SpecThreads == ThreadsInit /\ [][ThreadsNext]_vars

(***************************************************************************)
(* A sequential run: one caller makes get_registry calls one after the     *)
(* other, with or without a components_file.                               *)
(***************************************************************************)
MaxRegistryCalls == 3

SourceArguments == {"None", "components.yaml"} \cup ComponentFiles

SingletonInit ==
    /\ entry = "singleton"
    /\ threads = [t \in {1} |->
                      [pc |-> "idle", components_file |-> "None", made |-> 0,
                       result |-> 0, seen |-> 0, loads_before |-> 0]]
    /\ shared = NoShared
    /\ cli = NoCli
    /\ plat = NoPlatforms
    /\ run = NoRun
    /\ fmt = NoFmt
    /\ objects = NoObjects
    /\ held = <<>>
    /\ PipelineUnused

\* the caller enters get_registry(components_file)
EnterGetRegistry(components_file) ==
    /\ entry = "singleton"
    /\ threads[1].pc \in {"idle", "done"}
    /\ shared.calls < MaxRegistryCalls
    /\ shared' = [shared EXCEPT !.calls = @ + 1]
    /\ threads' = [threads EXCEPT ![1] =
                      [pc |-> "check", components_file |-> components_file, made |-> 0,
                       result |-> 0, seen |-> shared.instance,
                       loads_before |-> shared.loads]]
    /\ UNCHANGED <<entry, cli, plat, run, fmt, objects, held, parseVars, registryVars,
                   manifestVars, fileVars, versionVars>>

SingletonNext ==
    \/ \E f \in SourceArguments : EnterGetRegistry(f)
    \/ CheckRegistry(1)
    \/ ConstructRegistry(1)
    \/ AssignRegistry(1)
    \/ ReturnRegistry(1)

SpecSingleton == SingletonInit /\ [][SingletonNext]_vars

(***************************************************************************)
(* The ComponentInfo objects.  The store holds every object built, in the  *)
(* order built; an object is named by its place in the store, None by 0.   *)
(* The registry's _components hold references to the objects built by      *)
(* _load_components; lookup hands a reference to its caller.               *)
(***************************************************************************)
MaxLookups == 2

MaxLoads == 2

\* The keys of self._components, in the order of the dict
TypeOrder ==
    <<"receivers", "processors", "exporters", "extensions", "connectors", "providers">>

\* The ComponentInfo objects _load_components builds, in the order built.
RECURSIVE BuiltInOrder(_, _)
BuiltInOrder(loaded, types) ==
    IF types = <<>> THEN <<>>
    ELSE LET names == Sorted(DOMAIN loaded[Head(types)])
         IN  [i \in 1..Len(names) |-> loaded[Head(types)][names[i]]]
             \o BuiltInOrder(loaded, Tail(types))

\* ComponentRegistry(components_file): the objects are built and referred to
StoreComponents(store, components_file) ==
    LET loaded == LoadComponents(components_file)
        built == BuiltInOrder(loaded, TypeOrder)
    IN  [heap |-> store.heap \o built, state |-> "loaded", file |-> components_file,
         loads |-> store.loads + 1,
         index |-> [type \in DOMAIN loaded |->
                      [name \in DOMAIN loaded[type] |->
                          Len(store.heap) +
                          (CHOOSE i \in 1..Len(built) :
                               built[i].component_type = type /\ built[i].name = name)]]]

\* A slip: the stored object is given the version and returned itself.
LookupObjectInPlace(store, component_type, name, version) ==
    LET type == Plural(component_type)
        base_name == BaseName(name)
        known == type \in DOMAIN store.index /\ base_name \in DOMAIN store.index[type]
    IN  IF known
        THEN LET id == store.index[type][base_name]
             IN  [store |-> [store EXCEPT !.heap[id].gomod = ApplyVersion(@, version)],
                  ref |-> id, component |-> id]
        ELSE [store |-> store, ref |-> 0, component |-> 0]

\* lookup on the store: [store, ref, component]; ref is the object returned
\* (0 for None), component the stored object it was made from
LookupObject(store, component_type, name, version) ==
    LET type == Plural(component_type)
        base_name == BaseName(name)
        known == type \in DOMAIN store.index /\ base_name \in DOMAIN store.index[type]
    IN  IF known
        THEN LET id == store.index[type][base_name]
                 component == store.heap[id]
                 info == ComponentInfo(component.name,
                                       ApplyVersion(component.gomod, version),
                                       component.source, component.component_type)
             IN  [store |-> [store EXCEPT !.heap = Append(@, info)],
                  ref |-> Len(store.heap) + 1, component |-> id]
        ELSE [store |-> store, ref |-> 0, component |-> 0]

CopiesInit ==
    /\ entry = "copies"
    /\ objects = NoObjects
    /\ held = <<>>
    /\ cli = NoCli
    /\ plat = NoPlatforms
    /\ threads = NoThreads
    /\ shared = NoShared
    /\ run = NoRun
    /\ fmt = NoFmt
    /\ PipelineUnused

\* get_registry(components_file), when it builds a registry
LoadRegistry(components_file) ==
    /\ entry = "copies"
    /\ MustLoad(IF objects.state = "None" THEN 0 ELSE 1, components_file)
    /\ objects.loads < MaxLoads
    /\ objects' = StoreComponents(objects, components_file)
    /\ UNCHANGED <<entry, held, cli, plat, threads, shared, run, fmt, parseVars, registryVars,
                   manifestVars, fileVars, versionVars>>

\* info = get_registry().lookup(component_type, name, version)
LookupObjectCall(component_type, name, version) ==
    /\ entry = "copies"
    /\ objects.state = "loaded"
    /\ Len(held) < MaxLookups
    /\ LET r == LookupObject(objects, component_type, name, version)
       IN  /\ objects' = r.store
           /\ held' = Append(held, [ref |-> r.ref, component |-> r.component,
                                    version |-> version,
                                    returned |-> IF r.ref = 0 THEN NoInfo
                                                 ELSE r.store.heap[r.ref]])
    /\ UNCHANGED <<entry, cli, plat, threads, shared, run, fmt, parseVars, registryVars,
                   manifestVars, fileVars, versionVars>>

CopiesNext ==
    \/ \E f \in ComponentFiles \cup {"None"} : LoadRegistry(f)
    \/ \E t \in LookupTypes, n \in Names, v \in Versions : LookupObjectCall(t, n, v)

SpecCopies == CopiesInit /\ [][CopiesNext]_vars

(***************************************************************************)
(* One ManifestGenerator on chosen inputs, and one generate() call on it.  *)
(* The inputs are either resolved modules of one category with a catalog   *)
(* of Bindplane components as _load_bindplane_components leaves it, or a   *)
(* target version with no components.  A module string is a string of      *)
(* characters.                                                             *)
(***************************************************************************)
MaxResolvedModules == 2

MaxCatalogEntries == 2

\* Module strings: one is part of another, one is the empty string.
ModuleStrings == {<<"m">>, <<"m", "/", "x">>, <<"n">>, <<>>}

OtherCatalogEntry == <<"o">>

\* The minor numbers of the target versions, on both sides of 94.
MinorNumbers == {0, 1, 93, 94, 95, 96, 121, 122, 194}

VersionHeads == {<<"0">>, <<"1">>}

VersionTails == {<<>>, <<".", "0">>, <<".", "1">>}

\* The ComponentInfo list of a category for resolved module strings
ResolvedModules(c, modules) ==
    [i \in 1..Len(modules) |-> ComponentInfo(<<"c">>, modules[i], "contrib", c)]

FormatInit ==
    /\ entry = "format"
    /\ \/ \E c \in BindplaneSections, only \in BOOLEAN, include_bindplane \in BOOLEAN :
          \E modules \in SeqsUpTo(ModuleStrings, MaxResolvedModules) :
          \E catalog \in SeqsUpTo(ModuleStrings, MaxCatalogEntries) :
              fmt = [of |-> "components", pc |-> "start", category |-> c, minor |-> -1,
                     resolved |-> [NoResolved EXCEPT ![c] = ResolvedModules(c, modules)],
                     config |-> ManifestConfig(V0_121_0, FALSE, FALSE, include_bindplane),
                     bindplane_components |->
                         [loaded |-> TRUE, version |-> <<>>, replaces |-> <<>>,
                          components |->
                              [k \in (IF only THEN {c} ELSE BindplaneSections) |->
                                  IF k = c THEN catalog ELSE <<OtherCatalogEntry>>]]]
       \/ \E head \in VersionHeads, tail \in VersionTails, include_providers \in BOOLEAN :
          \E m \in MinorNumbers \cup {-1} :
              fmt = [of |-> "providers", pc |-> "start", category |-> "", minor |-> m,
                     resolved |-> NoResolved,
                     config |-> ManifestConfig(
                         IF m = -1 THEN head ELSE head \o <<".">> \o IntToStr(m) \o tail,
                         include_providers, FALSE, FALSE),
                     bindplane_components |-> NoBindplane]
    /\ objects = NoObjects
    /\ held = <<>>
    /\ cli = NoCli
    /\ plat = NoPlatforms
    /\ threads = NoThreads
    /\ shared = NoShared
    /\ run = NoRun
    /\ PipelineUnused

\* ManifestGenerator(resolved, config).generate()
FormatGenerateCall ==
    /\ entry = "format"
    /\ fmt.pc = "start"
    /\ LET generator == [exists |-> TRUE, resolved |-> fmt.resolved, config |-> fmt.config,
                         warnings |-> "warnings1",
                         bindplane |-> IF fmt.config.include_bindplane
                                       THEN fmt.bindplane_components ELSE NoBindplane]
           g == Generate(generator, <<>>)
       IN  fmt' = [fmt EXCEPT !.pc = "done"] @@ [err |-> g.err, manifest |-> g.manifest]
    /\ UNCHANGED <<entry, cli, plat, threads, shared, run, objects, held, parseVars,
                   registryVars, manifestVars, fileVars, versionVars>>

FormatNext == FormatGenerateCall

SpecFormat == FormatInit /\ [][FormatNext]_vars

(***************************************************************************)
(* build.py, build(): the stages inside the try block, after               *)
(* BuildContext.create has returned.  What each stage does when it is run  *)
(* is fixed by the surroundings of the run (the tools installed, the file  *)
(* system, the network); the run keeps the stages started and completed.   *)
(***************************************************************************)
Stages ==
    <<"validate_environment", "create_directories", "generate_sources",
      "download_supervisor", "process_templates", "build_release", "copy_artifacts">>

\* What a stage can do when run: return (build_release: True or False) or raise
StageOutcomes(stage) ==
    CASE stage = "validate_environment" ->
             {"ok", "RuntimeError", "CalledProcessError", "OSError"}
      [] stage = "create_directories" -> {"ok", "OSError"}
      [] stage = "generate_sources" -> {"ok", "RuntimeError", "OSError"}
      [] stage = "download_supervisor" -> {"ok", "RuntimeError", "OSError"}
      [] stage = "process_templates" -> {"ok", "OSError", "YAMLError"}
      [] stage = "build_release" -> {"True", "False", "OSError"}
      [] stage = "copy_artifacts" -> {"ok", "RuntimeError", "OSError"}

Returns == {"ok", "True", "False"}

\* except (RuntimeError, OSError, yaml.YAMLError)
BuildCaught == {"RuntimeError", "OSError", "YAMLError"}

BuildInit ==
    /\ entry = "build"
    /\ \E does \in [Elems(Stages) -> UNION {StageOutcomes(st) : st \in Elems(Stages)}] :
           /\ \A st \in Elems(Stages) : does[st] \in StageOutcomes(st)
           /\ run = [pc |-> "validate_environment", does |-> does, started |-> <<>>,
                     completed |-> <<>>, success |-> "unset", returned |-> "none",
                     raised |-> "none"]
    /\ fmt = NoFmt
    /\ objects = NoObjects
    /\ held = <<>>
    /\ cli = NoCli
    /\ plat = NoPlatforms
    /\ threads = NoThreads
    /\ shared = NoShared
    /\ PipelineUnused

\* A slip: only RuntimeError is caught.
BuildExceptRuntimeOnly(r, stage, e) ==
    IF e = "RuntimeError"
    THEN [r EXCEPT !.pc = "ended", !.started = Append(@, stage), !.returned = "False"]
    ELSE [r EXCEPT !.pc = "ended", !.started = Append(@, stage), !.raised = e]

\* The stage raises e: the except clause returns False, or e leaves build()
BuildExcept(r, stage, e) ==
    IF e \in BuildCaught
    THEN [r EXCEPT !.pc = "ended", !.started = Append(@, stage), !.returned = "False"]
    ELSE [r EXCEPT !.pc = "ended", !.started = Append(@, stage), !.raised = e]

\* A stage that returns nothing, and the stage that follows it
RunStage(stage, next) ==
    /\ entry = "build"
    /\ run.pc = stage
    /\ run' = IF run.does[stage] \in Returns
              THEN [run EXCEPT !.pc = next, !.started = Append(@, stage),
                               !.completed = Append(@, stage)]
              ELSE BuildExcept(run, stage, run.does[stage])
    /\ UNCHANGED <<entry, cli, plat, threads, shared, fmt, objects, held, parseVars,
                   registryVars, manifestVars, fileVars, versionVars>>

ValidateEnvironment == RunStage("validate_environment", "create_directories")

CreateDirectories == RunStage("create_directories", "generate_sources")

GenerateSources == RunStage("generate_sources", "download_supervisor")

DownloadSupervisor == RunStage("download_supervisor", "process_templates")

ProcessTemplates == RunStage("process_templates", "build_release")

\* success = build_release(ctx); when it is False, return success
BuildRelease ==
    /\ entry = "build"
    /\ run.pc = "build_release"
    /\ LET did == run.does["build_release"]
           ran == [run EXCEPT !.started = Append(@, "build_release"),
                              !.completed = Append(@, "build_release"),
                              !.success = did]
       IN  run' = CASE did = "True" -> [ran EXCEPT !.pc = "copy_artifacts"]
                    [] did = "False" -> [ran EXCEPT !.pc = "ended", !.returned = ran.success]
                    [] OTHER -> BuildExcept(run, "build_release", did)
    /\ UNCHANGED <<entry, cli, plat, threads, shared, fmt, objects, held, parseVars,
                   registryVars, manifestVars, fileVars, versionVars>>

\* if success: copy_artifacts(ctx, final_artifact_dir); then return success
CopyArtifacts ==
    /\ entry = "build"
    /\ run.pc = "copy_artifacts"
    /\ run' = IF run.does["copy_artifacts"] \in Returns
              THEN [run EXCEPT !.pc = "ended", !.started = Append(@, "copy_artifacts"),
                               !.completed = Append(@, "copy_artifacts"),
                               !.returned = run.success]
              ELSE BuildExcept(run, "copy_artifacts", run.does["copy_artifacts"])
    /\ UNCHANGED <<entry, cli, plat, threads, shared, fmt, objects, held, parseVars,
                   registryVars, manifestVars, fileVars, versionVars>>

BuildNext ==
    \/ ValidateEnvironment
    \/ CreateDirectories
    \/ GenerateSources
    \/ DownloadSupervisor
    \/ ProcessTemplates
    \/ BuildRelease
    \/ CopyArtifacts

SpecBuild == BuildInit /\ [][BuildNext]_vars

(***************************************************************************)
(* The entry points together.                                              *)
(***************************************************************************)
Init == ParseInit \/ RegistryInit \/ ManifestInit \/ FromConfigInit \/ VersionInit

Next == ParseNext \/ RegistryNext \/ ManifestNext \/ FromConfigNext \/ VersionNext

Spec == Init /\ [][Next]_vars

(***************************************************************************)
(* What the claims speak of: the names written in a document, and the      *)
(* orders and prefixes of strings, said without the operators of the model.*)
(***************************************************************************)
\* b is the part of name before its first "/"
IsBaseOf(b, name) ==
    /\ "/" \notin Elems(b)
    /\ Len(b) <= Len(name)
    /\ \A i \in 1..Len(b) : b[i] = name[i]
    /\ Len(b) = Len(name) \/ name[Len(b) + 1] = "/"

\* s comes before t in lexicographic order of code points
RECURSIVE LexBefore(_, _)
LexBefore(s, t) ==
    IF t = <<>> THEN FALSE
    ELSE IF s = <<>> THEN TRUE
    ELSE IF Head(s) = Head(t) THEN LexBefore(Tail(s), Tail(t))
    ELSE CodePoint(Head(s)) < CodePoint(Head(t))

Ascending(list) == \A i \in 1..(Len(list) - 1) : LexBefore(list[i], list[i + 1])

\* The keys written in a category section of the document.
SectionKeys(doc, c) == IF doc[c].kind = "map" THEN doc[c].keys ELSE {}

\* The base names of the keys of a category section.
SectionBases(doc, c) ==
    UNION {{b \in {SubSeq(k, 1, n) : n \in 0..Len(k)} : IsBaseOf(b, k)} :
              k \in SectionKeys(doc, c)}

WrittenPipelines(doc) ==
    IF doc.service.kind = "map" /\ doc.service.pipelines.kind = "map"
    THEN {it.cfg : it \in Elems(doc.service.pipelines.items)}
    ELSE {}

\* The references written in the pipelines' lists of a kind, or in
\* service.extensions.
References(doc, c) ==
    IF c = "connectors" THEN {}
    ELSE IF c = "extensions"
    THEN (IF doc.service.kind = "map" THEN Elems(doc.service.extensions.items) ELSE {})
    ELSE UNION {Elems(cfg[c].items) : cfg \in {w \in WrittenPipelines(doc) : w.kind = "map"}}

\* The parse() calls that returned.
Returned == {i \in 1..Len(calls) : calls[i].result.err = ""}

Components(i) == calls[i].result.components

Warned(i, kind, ref) ==
    \E k \in 1..Len(calls[i].result.warnings) :
        calls[i].result.warnings[k].kind = kind /\ calls[i].result.warnings[k].name = ref

\* C5: the base name parse() records for a section key or a reference is
\* the part before its first "/", every recorded name is such a part, and
\* lookup finds a name exactly when the part before its first "/" is a key
\* of the category in the components file, returning the entry of that key.
C5_BaseNameBeforeFirstSlash ==
    /\ \A i \in Returned : \A c \in CategorySet :
        /\ \A key \in SectionKeys(text, c) :
              \E b \in Elems(Components(i)[c]) : IsBaseOf(b, key)
        /\ \A ref \in References(text, c) :
              \E b \in Elems(Components(i)[c]) \cup Elems(Components(i).connectors) :
                  IsBaseOf(b, ref)
        /\ \A b \in Elems(Components(i)[c]) :
              \E n \in SectionKeys(text, c) \cup References(text, c) : IsBaseOf(b, n)
    /\ looked_up.component_type # "" =>
          LET entries == ReadComponentsFile(looked_up.file)[Plural(looked_up.component_type)]
          IN  /\ looked_up.found <=> \E b \in DOMAIN entries : IsBaseOf(b, looked_up.name)
              /\ looked_up.found => IsBaseOf(looked_up.info.name, looked_up.name)

\* C5 witness: a parse() that recorded "b" for the section key "b/x/y".
C5_Witness ==
    \E i \in Returned :
        /\ <<"b", "/", "x", "/", "y">> \in SectionKeys(text, "receivers")
        /\ Components(i).receivers = <<B>>

\* C6: each of the five lists parse() returns is in ascending order with
\* no name twice.
C6_SortedNoDuplicates ==
    \A i \in Returned : \A c \in CategorySet : Ascending(Components(i)[c])

\* C6 witness: a returned list of two names, one of them added from a
\* pipeline with a warning.
C6_Witness ==
    \E i \in Returned :
        /\ Len(Components(i).receivers) = 2
        /\ \E ref \in References(text, "receivers") : Warned(i, "receiver", ref)

\* C7: a pipeline receiver (exporter) whose base name is a connector key
\* and no receiver (exporter) key draws no warning and is not added to
\* receivers (exporters), and connectors holds it.
C7_ConnectorNotMisclassified ==
    \A i \in Returned : \A c \in {"receivers", "exporters"} :
        \A ref \in References(text, c) : \A b \in SectionBases(text, "connectors") :
            (IsBaseOf(b, ref) /\ b \notin SectionBases(text, c)) =>
                /\ ~Warned(i, Singular(c), ref)
                /\ b \notin Elems(Components(i)[c])
                /\ b \in Elems(Components(i).connectors)

\* C7 witness: connector "a" referenced as a pipeline's receiver, no
\* receiver section key "a", and parse() returned.
C7_Witness ==
    \E i \in Returned :
        /\ A \in SectionBases(text, "connectors")
        /\ A \notin SectionBases(text, "receivers")
        /\ \E ref \in References(text, "receivers") : IsBaseOf(A, ref)

\* C8: after parse() every referenced processor and service extension is
\* in its list, warned about when its section lacks it, and every
\* referenced receiver (exporter) is in its list or in connectors, added
\* with a warning when both sections lack it.
C8_NoReferenceLost ==
    \A i \in Returned : \A c \in CategorySet \ {"connectors"} :
        \A ref \in References(text, c) :
            \E b \in Elems(Components(i)[c]) \cup
                     (IF c \in {"receivers", "exporters"} THEN Elems(Components(i).connectors)
                      ELSE {}) :
                /\ IsBaseOf(b, ref)
                /\ c \in {"processors", "extensions"} => b \in Elems(Components(i)[c])
                /\ (b \notin SectionBases(text, c) /\
                     (c \in {"receivers", "exporters"} => b \notin SectionBases(text, "connectors")))
                   => /\ b \in Elems(Components(i)[c])
                      /\ \E r2 \in References(text, c) : IsBaseOf(b, r2) /\ Warned(i, Singular(c), r2)

\* C8 witness: a processor reference "a" that is a connector key and no
\* processor key, in the processors list after parse().
C8_Witness ==
    \E i \in Returned :
        /\ A \in SectionBases(text, "connectors")
        /\ A \notin SectionBases(text, "processors")
        /\ A \in References(text, "processors")
        /\ A \in Elems(Components(i).processors)

CustomNames(c) == IF c \in DOMAIN in_custom_mappings THEN DOMAIN in_custom_mappings[c] ELSE {}

\* The names the default components file lists in a category.
FileNames(c) == DOMAIN DefaultComponentsFile[c]

Known(c, n) == n \in CustomNames(c) \cup FileNames(c)

Resolved == resolution.value

\* The positions of the entries called n in the resolved list of c.
EntriesOf(c, n) == {i \in 1..Len(Resolved[c]) : Resolved[c][i].name = n}

UnresolvedOf(c, n) == {i \in 1..Len(Resolved.unresolved[c]) : Resolved.unresolved[c][i] = n}

\* The generate() calls that returned.
Generated == {k \in 1..Len(generated) : generated[k].err = ""}

ManifestOf(k) == generated[k].manifest.yaml_dict

ManifestKeys(k) == {ManifestOf(k)[i].key : i \in 1..Len(ManifestOf(k))}

\* The list under a key of the manifest, <<>> when the key is missing.
ItemsOf(k, key) ==
    IF key \in ManifestKeys(k)
    THEN (CHOOSE e \in Elems(ManifestOf(k)) : e.key = key).items
    ELSE <<>>

\* C1: resolve_components puts every parsed name in exactly one place: one
\* entry of the resolved list of its category, or one entry of unresolved
\* of its category; nothing else is in either.
C1_ResolvedXorUnresolved ==
    resolution.done =>
        \A c \in CategorySet :
            /\ \A n \in Elems(in_parsed[c]) :
                  \/ Cardinality(EntriesOf(c, n)) = 1 /\ UnresolvedOf(c, n) = {}
                  \/ Cardinality(UnresolvedOf(c, n)) = 1 /\ EntriesOf(c, n) = {}
            /\ Len(Resolved[c]) + Len(Resolved.unresolved[c]) = Len(in_parsed[c])

\* C1 witness: one category with a resolved and an unresolved name.
C1_Witness ==
    /\ resolution.done
    /\ in_parsed.receivers = <<B, A>>
    /\ EntriesOf("receivers", A) # {}
    /\ UnresolvedOf("receivers", B) # {}

\* C2: a name with a custom mapping resolves to one entry of source
\* "custom" whose module is the override with the version in place of the
\* placeholder, also when the components file knows the name.
C2_CustomTakesPrecedence ==
    resolution.done =>
        \A c \in CategorySet : \A n \in Elems(in_parsed[c]) \cap CustomNames(c) :
            \A i \in 1..Len(Resolved[c]) :
                Resolved[c][i].name = n =>
                    /\ Resolved[c][i].source = "custom"
                    /\ Resolved[c][i].gomod =
                           <<"github.com/my/custom/component", " ">> \o in_version

\* C2 witness: an override of an exporter the components file knows too.
C2_Witness ==
    /\ resolution.done
    /\ A \in CustomNames("exporters") \cap FileNames("exporters")
    /\ EntriesOf("exporters", A) # {}

\* The target version of the generator has a minor part int() accepts.
VersionWellFormed == gen.config.otel_version # BadVersion

\* An entry the Bindplane file contributes.
FromBindplane(item) == Head(item.value) = BINDPLANE

\* C3: with names unknown to the components file and to the overrides,
\* resolution still resolves every known name, generate() returns, and
\* every module of a component list of the manifest is the module of a
\* resolved known name or comes from the Bindplane file.
C3_UnresolvedNotFatal ==
    (resolution.done /\ \E c \in CategorySet : \E n \in Elems(in_parsed[c]) : ~Known(c, n)) =>
        /\ \A c \in CategorySet : \A n \in Elems(in_parsed[c]) :
              Known(c, n) => EntriesOf(c, n) # {}
        /\ \A k \in 1..Len(generated) :
              /\ VersionWellFormed => generated[k].err = ""
              /\ generated[k].err = "" => \A c \in CategorySet :
                  /\ \A i \in 1..Len(ItemsOf(k, c)) :
                        \/ FromBindplane(ItemsOf(k, c)[i])
                        \/ \E n \in Elems(in_parsed[c]) :
                              /\ Known(c, n)
                              /\ \E j \in EntriesOf(c, n) :
                                    Resolved[c][j].gomod = ItemsOf(k, c)[i].value
                  /\ Cardinality({i \in 1..Len(ItemsOf(k, c)) : ~FromBindplane(ItemsOf(k, c)[i])})
                        = Cardinality({n \in Elems(in_parsed[c]) : Known(c, n)})

\* C3 witness: generate() returned a manifest for a resolution with an
\* unresolved receiver and a resolved one.
C3_Witness ==
    /\ Generated # {}
    /\ UnresolvedOf("receivers", B) # {}
    /\ EntriesOf("receivers", A) # {}
    /\ Len(ItemsOf(1, "receivers")) >= 1

\* The warnings a GeneratedManifest carries: its warnings list.
WarningsOf(k) == heap[generated[k].manifest.warnings]

\* C4: every GeneratedManifest carries exactly one warning for each
\* unresolved (category, name) and no other warning, after any number of
\* generate() calls.
C4_OneWarningPerUnresolved ==
    \A k \in Generated :
        /\ \A c \in CategorySet : \A n \in Elems(Resolved.unresolved[c]) :
              Cardinality({i \in 1..Len(WarningsOf(k)) :
                              WarningsOf(k)[i] = [type |-> Singular(c), name |-> n]}) = 1
        /\ Len(WarningsOf(k)) =
              Len(Resolved.unresolved.receivers) + Len(Resolved.unresolved.processors)
              + Len(Resolved.unresolved.exporters) + Len(Resolved.unresolved.extensions)
              + Len(Resolved.unresolved.connectors)

\* What the Bindplane file lists for a category.
BindplaneListed(c) ==
    IF c \in DOMAIN BindplaneComponentsFile.components
    THEN BindplaneComponentsFile.components[c]
    ELSE <<>>

\* C10: a component category is a key of the manifest exactly when its
\* list is not empty: for the four sections, when something resolved or
\* the enabled Bindplane file lists something; for connectors, when some
\* connector resolved.
C10_NoEmptySection ==
    \A k \in Generated :
        /\ \A c \in BindplaneSections :
              c \in ManifestKeys(k) <=>
                  \/ Resolved[c] # <<>>
                  \/ gen.config.include_bindplane /\ BindplaneListed(c) # <<>>
        /\ "connectors" \in ManifestKeys(k) <=> Resolved.connectors # <<>>
        /\ \A c \in CategorySet : c \in ManifestKeys(k) => ItemsOf(k, c) # <<>>

\* C10 witness: a manifest with receivers and without extensions and
\* connectors.
C10_Witness ==
    \E k \in Generated :
        /\ "receivers" \in ManifestKeys(k)
        /\ "extensions" \notin ManifestKeys(k)
        /\ "connectors" \notin ManifestKeys(k)

\* The module template resolution starts from for name n of category c:
\* the custom mapping, or else the entry of the components file.
TemplateOf(c, n) ==
    IF n \in CustomNames(c) THEN in_custom_mappings[c][n]
    ELSE DefaultComponentsFile[c][n].gomod

\* The number of places of s where sub starts.
Occurrences(s, sub) ==
    Cardinality({i \in 1..(Len(s) - Len(sub) + 1) : SubSeq(s, i, i + Len(sub) - 1) = sub})

HasPlaceholder(s) == \E i \in 1..Len(s) : <<s[i]>> = VERSION_PLACEHOLDER

\* C11: the module of a resolved entry whose template holds the placeholder
\* holds the requested version exactly once and no placeholder; the module
\* of an entry whose template holds no placeholder is the template.
C11_VersionSubstitutedOnce ==
    resolution.done =>
        \A c \in CategorySet : \A i \in 1..Len(Resolved[c]) :
            LET template == TemplateOf(c, Resolved[c][i].name)
                gomod == Resolved[c][i].gomod
            IN  IF HasPlaceholder(template)
                THEN /\ Occurrences(gomod, in_version) = 1
                     /\ ~HasPlaceholder(gomod)
                ELSE gomod = template

\* C11 witness: version 0.122.0 put into a registry template and into a
\* custom template, next to an entry whose template holds no placeholder.
C11_Witness ==
    /\ resolution.done
    /\ in_version = V0_122_0
    /\ \E i \in 1..Len(Resolved.exporters) :
          /\ Resolved.exporters[i].source = "custom"
          /\ HasPlaceholder(TemplateOf("exporters", Resolved.exporters[i].name))
    /\ \E i \in 1..Len(Resolved.exporters) :
          /\ Resolved.exporters[i].source # "custom"
          /\ ~HasPlaceholder(TemplateOf("exporters", Resolved.exporters[i].name))
    /\ \E i \in 1..Len(Resolved.receivers) :
          /\ Resolved.receivers[i].source = "contrib"
          /\ HasPlaceholder(TemplateOf("receivers", Resolved.receivers[i].name))

\* The names of the resolved components of a category.
ResolvedNames(c) == {Resolved[c][i].name : i \in 1..Len(Resolved[c])}

\* C12: parsing the content of a generated manifest with ConfigParser
\* succeeds and gives, per category, the names of the resolved components
\* the manifest was generated from.
C12_ManifestRoundTrip ==
    reparsed.done =>
        /\ reparsed.result.err = ""
        /\ \A c \in CategorySet : Elems(reparsed.result.components[c]) = ResolvedNames(c)

\* C13: generate_manifest_from_config touches the output path only in its
\* last statement, after reading, parsing, resolving and generating: until
\* it returns, and for good when one of those steps raised, every file is
\* as it was before the call (missing, or with its old content); after it
\* returned, the file at output_path holds the whole generated content.
C13_NoPartialManifest ==
    entry = "from_config" =>
        /\ job.pc # "returned" => files = job.before
        /\ job.pc = "returned" =>
               files = IF job.output_path # "None"
                       THEN [job.before EXCEPT ![job.output_path] =
                                [exists |-> TRUE, content |-> job.result]]
                       ELSE job.before

\* C13 witness: generating raised for a config that parsed and resolved,
\* and the old file at the output path is still there.
C13_Witness ==
    /\ entry = "from_config"
    /\ job.pc = "raised"
    /\ job.raised = "ValueError"
    /\ job.output_path \in OutputPaths
    /\ files[job.output_path] = [exists |-> TRUE, content |-> OldContent]

(***************************************************************************)
(* Version determination.                                                  *)
(***************************************************************************)
\* The gomod lines of the manifest, over the six sections.
GomodLines ==
    UNION {{in_manifest.sections[sec].items[i].gomod :
               i \in {j \in 1..Len(in_manifest.sections[sec].items) :
                         in_manifest.sections[sec].items[j].has_gomod}} :
           sec \in Elems(VersionSections)}

\* The lines that hold the contrib prefix.
VendorLines == {line \in GomodLines : CONTRIB_PREFIX \in Elems(line)}

\* t is digits "." digits "." digits
IsXYZ(t) ==
    /\ t # <<>>
    /\ \A i \in 1..Len(t) : t[i] = "." \/ t[i] \in Elems(Digits)
    /\ Cardinality({i \in 1..Len(t) : t[i] = "."}) = 2
    /\ t[1] # "." /\ t[Len(t)] # "."
    /\ \A i \in 1..(Len(t) - 1) : ~(t[i] = "." /\ t[i + 1] = ".")

\* The X.Y.Z of the lines that end in vX.Y.Z, among a set of lines.
TrailingTokens(lines) ==
    {t \in UNION {{SubSeq(line, i + 1, Len(line)) : i \in 1..Len(line)} : line \in lines} :
        /\ IsXYZ(t)
        /\ \E line \in lines :
              /\ Len(line) > Len(t)
              /\ SubSeq(line, Len(line) - Len(t) + 1, Len(line)) = t
              /\ line[Len(line) - Len(t)] = "v"}

BothOverrides == overrides.ocb_version # <<>> /\ overrides.supervisor_version # <<>>

DefaultEntry == LoadVersionMappings[DEFAULT_VERSION]

Release(t) == [i \in 1..3 |-> ParseInt(Split(t, ".")[i])]

\* t is not after u: field by field, as numbers.
NotAfter(t, u) ==
    \/ Release(t) = Release(u)
    \/ \E i \in 1..3 :
          /\ Release(t)[i] < Release(u)[i]
          /\ \A j \in 1..(i - 1) : Release(t)[j] = Release(u)[j]

\* C15: the version get_contrib_version_from_manifest returns is one of the
\* trailing vX.Y.Z tokens of the lines that hold the contrib prefix, over
\* the six sections, and no such token is after it in the numeric order of
\* the fields; lines without the prefix do not count.
C15_MaximumContribVersion ==
    (detected.done /\ detected.err = "") =>
        /\ detected.value \in TrailingTokens(VendorLines)
        /\ \A t \in TrailingTokens(VendorLines) : NotAfter(t, detected.value)

\* C15 witness: 0.9.0 and 0.122.0 in two sections give 0.122.0.
C15_Witness ==
    /\ detected.done
    /\ detected.value = V0_122_0
    /\ V0_9_0 \in TrailingTokens(VendorLines)
    /\ Cardinality({sec \in Elems(VersionSections) : in_manifest.sections[sec].present}) = 2

\* C15 witness of the other case: a core module of a higher version next to
\* a contrib module.
C15_CoreIgnored ==
    /\ detected.done
    /\ detected.value = V0_122_0
    /\ V0_123_0 \in TrailingTokens(GomodLines)

\* The tokens the manifest offers as reference version.
Offered == IF in_manifest.kind = "map" THEN TrailingTokens(VendorLines) ELSE {}

\* The reference version the table is read at: the latest offered token if
\* the table lists it, else the default reference version.
Reference ==
    IF Offered # {} /\ (CHOOSE t \in Offered : \A u \in Offered : NotAfter(u, t))
                           \in DOMAIN LoadVersionMappings
    THEN CHOOSE t \in Offered : \A u \in Offered : NotAfter(u, t)
    ELSE DEFAULT_VERSION

\* C16: determine_build_versions returns, and an override is returned for
\* its own field whatever the manifest holds; a field without override is
\* the table's value at the reference version; with both overrides the Go
\* version is the fixed default, whatever the manifest and the table say.
C16_OverrideWins ==
    determined.done =>
        /\ determined.err = ""
        /\ determined.value.ocb =
               IF overrides.ocb_version # <<>> THEN overrides.ocb_version
               ELSE LoadVersionMappings[Reference].builder
        /\ determined.value.supervisor =
               IF overrides.supervisor_version # <<>> THEN overrides.supervisor_version
               ELSE LoadVersionMappings[Reference].supervisor
        /\ determined.value.go =
               IF BothOverrides THEN DEFAULT_GO ELSE LoadVersionMappings[Reference].go

\* C16 witness: only the ocb override, over a manifest of version 0.121.0.
C16_Witness ==
    /\ determined.done
    /\ overrides.ocb_version = V0_123_0
    /\ overrides.supervisor_version = <<>>
    /\ Reference = V0_121_0
    /\ determined.value.ocb = V0_123_0
    /\ determined.value.supervisor = V0_122_0

\* The latest token the manifest offers (only read when Offered # {}).
Latest == CHOOSE t \in Offered : \A u \in Offered : NotAfter(u, t)

\* C17: when the version detected in the manifest is not a key of the
\* compatibility table and the two overrides are not both given,
\* determine_build_versions returns the table entry of the default
\* reference version, an override replacing its own field.
C17_UnknownVersionUsesDefaultEntry ==
    (determined.done /\ Offered # {} /\ ~BothOverrides
         /\ Latest \notin DOMAIN LoadVersionMappings)
        => /\ determined.err = ""
           /\ overrides.ocb_version = <<>> => determined.value.ocb = DefaultEntry.builder
           /\ overrides.supervisor_version = <<>> =>
                  determined.value.supervisor = DefaultEntry.supervisor
           /\ determined.value.go = DefaultEntry.go

\* C17 witness: a manifest whose only contrib version is 0.9.0, no override.
C17_Witness ==
    /\ determined.done
    /\ Offered = {V0_9_0}
    /\ V0_9_0 \notin DOMAIN LoadVersionMappings
    /\ overrides = NoOverrides
    /\ determined.value = BuildVersions(DefaultEntry.builder, DefaultEntry.supervisor, DefaultEntry.go)

C19_ValueErrorIffNoContribVersion ==
    (detected.done /\ in_manifest.kind = "map") =>
        /\ detected.err \in {"", "ValueError"}
        /\ detected.err = "ValueError" <=> TrailingTokens(VendorLines) = {}
        /\ detected.err = "ValueError" => detected.value = <<>>
        /\ detected.err = "" => detected.value # <<>>

\* C19 witness: the only components are core modules with a version, and
\* the call raises.
C19_Witness ==
    /\ detected.done
    /\ in_manifest.kind = "map"
    /\ VendorLines = {}
    /\ TrailingTokens(GomodLines) # {}
    /\ detected.err = "ValueError"

\* A category section written with nothing in it: "processors:" or
\* "processors: {}".
PresentButEmpty(doc, c) ==
    doc.kind = "map" /\ (doc[c].kind = "null" \/ (doc[c].kind = "map" /\ doc[c].keys = {}))

\* The base names of the references the service section holds for a
\* category.
ReferencedBases(doc, c) ==
    UNION {{b \in {SubSeq(k, 1, n) : n \in 0..Len(k)} : IsBaseOf(b, k)} :
              k \in References(doc, c)}

C20_EmptyDocument ==
    Len(calls) > 0 /\ text.kind = "null" /\ calls[1].result = Raised("", <<>>)

\* A mapping of unexpected shape (a bare key or a list) read as if it were
\* not written.
MappingAsAbsent(node) == IF node.kind \in {"null", "seq"} THEN Absent ELSE node

\* A list of unexpected shape (a bare key) read as if it were not written.
ListAsAbsent(node) == IF node.kind = "null" THEN Absent ELSE node

PipelineAsAbsent(cfg) ==
    IF cfg.kind # "map" THEN AbsentPipeline
    ELSE [cfg EXCEPT !.receivers = ListAsAbsent(@), !.processors = ListAsAbsent(@),
                     !.exporters = ListAsAbsent(@)]

PipelinesAsAbsent(pipelines) ==
    IF pipelines.kind # "map" THEN AbsentPipelines
    ELSE [pipelines EXCEPT !.items =
             [j \in DOMAIN pipelines.items |->
                 [pipelines.items[j] EXCEPT !.cfg = PipelineAsAbsent(@)]]]

ServiceAsAbsent(service) ==
    IF service.kind # "map" THEN AbsentService
    ELSE [service EXCEPT !.pipelines = PipelinesAsAbsent(@),
                         !.extensions = ListAsAbsent(@)]

\* The document with every part of unexpected shape left out.
DocumentAsAbsent(doc) ==
    IF doc.kind # "map" THEN doc
    ELSE [doc EXCEPT !.receivers = MappingAsAbsent(@), !.processors = MappingAsAbsent(@),
                     !.exporters = MappingAsAbsent(@), !.extensions = MappingAsAbsent(@),
                     !.connectors = MappingAsAbsent(@), !.service = ServiceAsAbsent(@)]

\* C21: parse() never raises on a part of unexpected shape: it returns what
\* it returns for the document without that part.
C21_FailsClosed ==
    \A i \in 1..Len(calls) :
        /\ calls[i].result.err = ""
        /\ calls[i].result.components =
               Parse(ParserInit(DocumentAsAbsent(text))).components

\* Reading the misshapen parts as absent is itself without error.
C21_AbsentReadingReturns == Parse(ParserInit(DocumentAsAbsent(text))).err = ""

\* A service section written as a bare key makes parse() raise, while the
\* category sections are well formed.
C21_NullServiceRaises ==
    /\ Len(calls) > 0
    /\ text.service.kind = "null"
    /\ \A c \in CategorySet : text[c].kind \in {"absent", "map"}
    /\ calls[1].result.err = "AttributeError"

\* A null list in a pipeline makes parse() raise.
C21_NullListRaises ==
    /\ Len(calls) > 0
    /\ text.service.kind = "map"
    /\ text.service.pipelines.kind = "map"
    /\ text.service.extensions.kind # "null"
    /\ \A c \in CategorySet : text[c].kind \in {"absent", "map"}
    /\ calls[1].result.err = "TypeError"

\* A category section written as a bare key is read as absent.
C21_NullSectionTolerated ==
    /\ Len(calls) > 0
    /\ text.receivers.kind = "null"
    /\ calls[1].result.err = ""

\* What main() met first, read from the run's inputs: the outcome of getting
\* the manifest if that failed or ended the run, else the outcome of the
\* build.build call.
GettingManifest == IF cli.from_config THEN cli.made ELSE cli.read

GenerateOnlyCompleted == cli.from_config /\ cli.generate_only /\ cli.made = "ok"

\* The body of build() ran and ended so.
BuildEnded(outcome) ==
    /\ GettingManifest = "ok"
    /\ ~GenerateOnlyCompleted
    /\ cli.program = "hub"
    /\ cli.built = outcome

RaisedInMain(e) == GettingManifest = e \/ BuildEnded(e)

C22_BuildSucceeded ==
    entry = "main" /\ cli.pc = "exited" /\ BuildEnded("True") /\ cli.status = 0

\* main() of the builder exits with 0 after --generate-only.
C22_GenerateOnly ==
    entry = "main" /\ cli.pc = "exited" /\ GenerateOnlyCompleted /\ cli.status = 0
                   /\ ~cli.build_called

\* A RuntimeError of the build reaches the handler of main().
C22_BuildRaised ==
    /\ entry = "main" /\ cli.pc = "exited" /\ BuildEnded("RuntimeError")
    /\ cli.errors = <<"Build failed">>

\* The builder's call of build.build raises TypeError, which no handler of
\* main() names.
C22_BuilderCallRaises ==
    /\ entry = "main" /\ cli.pc = "exited" /\ cli.program = "builder"
    /\ cli.build_called /\ cli.uncaught = "TypeError" /\ cli.errors = <<>>

\* The parts of s between its commas: joined by commas they give s back,
\* and none holds a comma.
IsCommaSplit(parts, s) ==
    /\ Len(parts) >= 1
    /\ \A i \in 1..Len(parts) : "," \notin Elems(parts[i])
    /\ Join(parts) = s

\* The positions of the commas of s, and 0 and Len(s) + 1.
Cuts(s) == {0, Len(s) + 1} \cup {i \in 1..Len(s) : s[i] = ","}

\* The entries written in a platforms argument, between its commas.
WrittenEntries(s) ==
    {SubSeq(s, i + 1, j - 1) : <<i, j>> \in
        {c \in Cuts(s) \X Cuts(s) : c[1] < c[2] /\ ~\E k \in Cuts(s) : c[1] < k /\ k < c[2]}}

Blank(t) == \A i \in 1..Len(t) : t[i] = " "

\* t is s without the blanks around it.
Trimmed(t, s) ==
    /\ t # <<>> /\ t[1] # " " /\ t[Len(t)] # " "
    /\ \E i \in 0..Len(s) : /\ i + Len(t) <= Len(s)
                           /\ SubSeq(s, i + 1, i + Len(t)) = t
                           /\ Blank(SubSeq(s, 1, i))
                           /\ Blank(SubSeq(s, i + Len(t) + 1, Len(s)))

\* The entries of the form os/arch: one "/", something on both sides.
ValidEntries(s) ==
    {e \in WrittenEntries(s) :
        /\ Cardinality({i \in 1..Len(e) : e[i] = "/"}) = 1
        /\ \E i \in 1..Len(e) : e[i] = "/" /\ ~Blank(SubSeq(e, 1, i - 1))
                                           /\ ~Blank(SubSeq(e, i + 1, Len(e)))}

\* The os (k = 1) or arch (k = 2) names of the valid entries.
ValidNames(s, k) ==
    {t \in UNION {{SubSeq(e, i, j) : i \in 1..Len(e), j \in 1..Len(e)} : e \in ValidEntries(s)} :
        \E e \in ValidEntries(s) : \E i \in 1..Len(e) :
            /\ e[i] = "/"
            /\ Trimmed(t, IF k = 1 THEN SubSeq(e, 1, i - 1) ELSE SubSeq(e, i + 1, Len(e)))}

\* What the claim gives for one of the two lists.
ListAsClaimed(list, given, default, k) ==
    IF plat.goos # None \/ plat.goarch # None
    THEN IF given = None \/ given = <<>> THEN list = <<default>>
         ELSE IsCommaSplit(list, given)
    ELSE IF plat.platforms # None /\ plat.platforms # <<>>
    THEN IF ValidNames(plat.platforms, k) = {} THEN list = <<default>>
         ELSE Ascending(list) /\ Elems(list) = ValidNames(plat.platforms, k)
    ELSE list = <<default>>

\* C23: resolve_platforms gives, with goos or goarch not None, the
\* comma-split goos and goarch, each the default when None or empty,
\* whatever platforms is; else, with a non-empty platforms, the sorted lists
\* without duplicates of the os and of the arch of its valid os/arch
\* entries, each the default when empty; else the defaults.  No list is
\* empty.
C23_PlatformPriority ==
    (entry = "platforms" /\ plat.done) =>
        /\ ListAsClaimed(plat.result[1], plat.goos, LINUX, 1)
        /\ ListAsClaimed(plat.result[2], plat.goarch, ARM64, 2)
        /\ plat.result[1] # <<>>
        /\ plat.result[2] # <<>>

\* C23 witness: goarch alone is given over a platforms argument with valid
\* entries, which is ignored.
C23_Witness ==
    /\ entry = "platforms" /\ plat.done
    /\ plat.goos = None
    /\ plat.goarch = ARM64 \o <<",">> \o AMD64
    /\ plat.platforms = LINUX \o <<"/">> \o AMD64 \o <<",">> \o DARWIN \o <<"/">> \o ARM64
    /\ plat.result = <<<<LINUX>>, <<ARM64, AMD64>>>>

\* Platforms alone: the lists are sorted, an invalid entry is skipped.
C23_PlatformsSorted ==
    /\ entry = "platforms" /\ plat.done
    /\ plat.goos = None /\ plat.goarch = None
    /\ plat.platforms = LINUX \o <<"/">> \o AMD64 \o <<",">> \o DARWIN \o <<"/">> \o ARM64
    /\ plat.result = <<<<DARWIN, LINUX>>, <<AMD64, ARM64>>>>

\* C24: when threads call get_registry() with no source while the registry
\* is uninitialised, the component data is loaded at most once and the
\* callers that have returned hold the same registry object.
C24_LoadOnce ==
    entry = "threads" =>
        /\ shared.loads <= 1
        /\ \A t, u \in DOMAIN threads :
               (threads[t].pc = "done" /\ threads[u].pc = "done")
                   => threads[t].result = threads[u].result

\* Two threads have both found _registry None, and both have loaded.
C24_TwoLoads ==
    /\ entry = "threads"
    /\ shared.loads = 2
    /\ \E t, u \in DOMAIN threads : t # u /\ threads[t].made = 1 /\ threads[u].made = 2

\* Two callers have returned different registry objects.
C24_TwoInstances ==
    /\ entry = "threads"
    /\ \E t, u \in DOMAIN threads :
           /\ threads[t].pc = "done" /\ threads[u].pc = "done"
           /\ threads[t].result # threads[u].result

\* When the calls do not overlap there is one load.
C24_SequentialLoadsOnce ==
    /\ entry = "threads"
    /\ \A t \in DOMAIN threads : threads[t].pc = "done"
    /\ shared.loads = 1

\* The last get_registry call of the sequential caller, once it returned.
LastCall == threads[1]

LoadedInLastCall == shared.loads = LastCall.loads_before + 1

\* C25: in a sequential run a get_registry call loads exactly when no
\* instance exists or a source is passed; a call with a source returns a
\* new instance built from that source; a call without a source over an
\* existing instance loads nothing and returns that instance, which is the
\* one built by the latest load.
C25_LoadsExactlyWhenNeeded ==
    (entry = "singleton" /\ LastCall.pc = "done") =>
        /\ shared.loads \in {LastCall.loads_before, LastCall.loads_before + 1}
        /\ LoadedInLastCall <=> (LastCall.seen = 0 \/ LastCall.components_file # "None")
        /\ LastCall.components_file # "None" =>
               /\ LastCall.result # LastCall.seen
               /\ shared.sources[LastCall.result] = LastCall.components_file
        /\ (LastCall.components_file = "None" /\ LastCall.seen # 0) =>
               LastCall.result = LastCall.seen
        /\ LastCall.result = shared.loads
        /\ LastCall.result = shared.instance

\* C25 witness: a third call, without a source, returns the instance the
\* second call built from alt.yaml over the one the first call built.
C25_Witness ==
    /\ entry = "singleton"
    /\ LastCall.pc = "done"
    /\ shared.calls = 3
    /\ LastCall.components_file = "None"
    /\ shared.sources = <<"None", "alt.yaml">>
    /\ LastCall.result = 2

\* What a caller reads in the k-th GeneratedManifest returned: its content,
\* its structured form and the elements of its warnings list.
ReturnedManifest(k) ==
    [content |-> generated[k].manifest.content,
     yaml_dict |-> generated[k].manifest.yaml_dict,
     warnings |-> WarningsOf(k)]

\* C26: no step changes the content, the structured form or the warnings
\* of a GeneratedManifest that generate() has returned.
C26_WriteOnce ==
    [][\A k \in Generated : ReturnedManifest(k)' = ReturnedManifest(k)]_vars

\* Content and structured form of a returned manifest are never changed.
C26_ContentWriteOnce ==
    [][\A k \in Generated :
          /\ ReturnedManifest(k)'.content = ReturnedManifest(k).content
          /\ ReturnedManifest(k)'.yaml_dict = ReturnedManifest(k).yaml_dict]_vars

\* A second generate() has been made over a manifest with warnings.
C26_SecondGenerate ==
    /\ entry = "manifest"
    /\ Len(generated) = 2
    /\ generated[1].err = ""
    /\ Len(WarningsOf(1)) = 2 * Len(Resolved.unresolved.receivers)
    /\ Resolved.unresolved.receivers # <<>>

\* The objects the current registry refers to.
StoredObjects == UNION {{objects.index[t][n] : n \in DOMAIN objects.index[t]} :
                           t \in DOMAIN objects.index}

\* The lookups that returned an object.
Found == {i \in 1..Len(held) : held[i].ref # 0}

\* C27: the object lookup returns is not one the registry holds and no
\* other caller holds it; every stored object stays as loaded from the
\* file; an object returned earlier stays as returned through later
\* lookups and re-initialisation; two lookups of one stored template with
\* two versions return two differently versioned results.
C27_ReturnedCopiesIndependent ==
    entry = "copies" =>
        /\ \A i \in Found : held[i].ref \notin StoredObjects
        /\ \A i, j \in Found : i # j => held[i].ref # held[j].ref
        /\ \A t \in DOMAIN objects.index : \A n \in DOMAIN objects.index[t] :
               LET written == ReadComponentsFile(objects.file)[t][n]
               IN  objects.heap[objects.index[t][n]].gomod = written.gomod
        /\ \A i \in Found : objects.heap[held[i].ref] = held[i].returned
        /\ \A i, j \in Found :
               (/\ held[i].component = held[j].component
                /\ held[i].version # held[j].version
                /\ HasPlaceholder(objects.heap[held[i].component].gomod))
                   => held[i].returned.gomod # held[j].returned.gomod

\* C27 witness: one name looked up with two versions, then the registry
\* re-initialised from another file.
C27_Witness ==
    /\ entry = "copies"
    /\ Len(held) = 2
    /\ Found = {1, 2}
    /\ held[1].component = held[2].component
    /\ held[1].version # held[2].version
    /\ held[1].returned.gomod # held[2].returned.gomod
    /\ objects.loads = 2
    /\ objects.file = "alt.yaml"
    /\ held[1].component \notin StoredObjects

\* The list the manifest of the format family has under a key, empty when
\* the key is not in the manifest.
Emitted(key) ==
    LET d == fmt.manifest.yaml_dict
    IN  IF \E i \in 1..Len(d) : d[i].key = key
        THEN LET items == (CHOOSE e \in Elems(d) : e.key = key).items
             IN  [i \in 1..Len(items) |-> items[i].value]
        ELSE <<>>

\* The catalog entries of a category, none when the catalog has none.
CatalogOf(c) ==
    IF c \in DOMAIN fmt.bindplane_components.components
    THEN fmt.bindplane_components.components[c] ELSE <<>>

ResolvedOf(c) == [i \in 1..Len(fmt.resolved[c]) |-> fmt.resolved[c][i].gomod]

\* The entries of a list at the places K, in the order of the list.
RECURSIVE AtPlaces(_, _)
AtPlaces(list, K) ==
    IF list = <<>> THEN <<>>
    ELSE AtPlaces(SubSeq(list, 1, Len(list) - 1), K)
         \o (IF Len(list) \in K THEN <<list[Len(list)]>> ELSE <<>>)

\* K is the places of the catalog entries that are not skipped: an entry is
\* skipped exactly when it is part of a resolved module or of an entry
\* kept before it.
KeptPlaces(resolved, catalog, K) ==
    \A i \in 1..Len(catalog) :
        i \notin K <=>
            \/ \E r \in Elems(resolved) : Contains(r, catalog[i])
            \/ \E j \in K : j < i /\ Contains(catalog[j], catalog[i])

\* C28: with the catalog enabled each of the four lists is the resolved
\* modules in order, then the catalog entries of the category in order
\* without those that are a substring of an entry already in the list; with
\* the catalog disabled each list is the resolved modules.
C28_CatalogAppendedWithoutDuplicates ==
    (entry = "format" /\ fmt.of = "components" /\ fmt.pc = "done") =>
        \A c \in BindplaneSections :
            IF fmt.config.include_bindplane
            THEN \E K \in SUBSET (1..Len(CatalogOf(c))) :
                     /\ KeptPlaces(ResolvedOf(c), CatalogOf(c), K)
                     /\ Emitted(c) = ResolvedOf(c) \o AtPlaces(CatalogOf(c), K)
            ELSE Emitted(c) = ResolvedOf(c)

\* C28 witness: a catalog entry is skipped for an entry appended before it,
\* after a resolved module.
C28_Witness ==
    /\ entry = "format" /\ fmt.of = "components" /\ fmt.pc = "done"
    /\ fmt.config.include_bindplane
    /\ Len(ResolvedOf(fmt.category)) = 1
    /\ Len(CatalogOf(fmt.category)) = 2
    /\ Emitted(fmt.category) = ResolvedOf(fmt.category) \o <<CatalogOf(fmt.category)[1]>>
    /\ ~Contains(ResolvedOf(fmt.category)[1], CatalogOf(fmt.category)[2])
    /\ CatalogOf(fmt.category)[1] # CatalogOf(fmt.category)[2]

\* C28: a catalog entry is skipped for a resolved module that has it as a part
C28_SkippedForResolved ==
    /\ entry = "format" /\ fmt.of = "components" /\ fmt.pc = "done"
    /\ fmt.config.include_bindplane
    /\ ResolvedOf(fmt.category) = << <<"m", "/", "x">> >>
    /\ CatalogOf(fmt.category) = << <<"m">>, <<"n">> >>
    /\ Emitted(fmt.category) = << <<"m", "/", "x">>, <<"n">> >>

\* C28: the catalog is disabled and has entries
C28_CatalogDisabled ==
    /\ entry = "format" /\ fmt.of = "components" /\ fmt.pc = "done"
    /\ ~fmt.config.include_bindplane
    /\ CatalogOf(fmt.category) # <<>>
    /\ ResolvedOf(fmt.category) # <<>>

\* The provider version the manifest is to have for the minor number m
\* of the target version, -1 when the target version has none.
ProviderVersion(m) ==
    IF m - 94 > 0 /\ m # -1
    THEN <<"1", ".">> \o IntToStr(m - 94) \o <<".", "0">>
    ELSE <<"1", ".", "0", ".", "0">>

\* C29: when providers are included the manifest lists the five fixed
\* providers in order, each at version 1.(m-94).0 when m - 94 > 0 and at
\* 1.0.0 when m - 94 <= 0 or the target version has no minor component.
C29_ProvidersAtDerivedVersion ==
    (entry = "format" /\ fmt.of = "providers" /\ fmt.pc = "done"
        /\ fmt.config.include_providers) =>
        /\ fmt.err = ""
        /\ Len(Emitted("providers")) = 5
        /\ \A i \in 1..5 :
               Emitted("providers")[i] =
                   <<DEFAULT_PROVIDERS[i], " ", "v">> \o ProviderVersion(fmt.minor)

\* C29 witness: providers generated for a minor number above 94
C29_Witness ==
    /\ entry = "format" /\ fmt.of = "providers" /\ fmt.pc = "done"
    /\ fmt.config.include_providers
    /\ fmt.minor = 121
    /\ Emitted("providers")[1] =
           <<DEFAULT_PROVIDERS[1], " ", "v", "1", ".", "2", "7", ".", "0">>

\* C29: the minor number is 94 or less, or there is none
C29_Clamped ==
    /\ entry = "format" /\ fmt.of = "providers" /\ fmt.pc = "done"
    /\ fmt.config.include_providers
    /\ fmt.minor \in {-1, 93, 94}
    /\ Emitted("providers")[5] = <<DEFAULT_PROVIDERS[5], " ", "v", "1", ".", "0", ".", "0">>

\* The stage at place i of the order has completed in the run.
Completed(i) == \E k \in 1..Len(run.completed) : run.completed[k] = Stages[i]

\* The stage that raised in the run, when build() ended in the except
\* clause or by the exception.
RaisedStage == run.started[Len(run.started)]

\* C30: the stages start in the fixed order; a stage starts only when all
\* earlier stages have completed; copy_artifacts starts only when
\* build_release returned True; build() returns True exactly when
\* build_release returned True and copy_artifacts completed; when a stage
\* raises RuntimeError, OSError or a YAML error build() returns False and
\* does not raise.
C30_StagesInOrder ==
    entry = "build" =>
        /\ Len(run.started) <= Len(Stages)
        /\ \A i \in 1..Len(run.started) :
               /\ run.started[i] = Stages[i]
               /\ \A j \in 1..(i - 1) : Completed(j)
        /\ (\E i \in 1..Len(run.started) : run.started[i] = "copy_artifacts")
               => run.does["build_release"] = "True" /\ run.success = "True"
        /\ run.pc = "ended" =>
               /\ run.returned = "True" <=>
                      (run.does["build_release"] = "True" /\ Completed(6) /\ Completed(7))
               /\ run.does[RaisedStage] \in {"RuntimeError", "OSError", "YAMLError"}
                      => (run.returned = "False" /\ run.raised = "none")
               /\ run.returned = "none" <=> run.raised # "none"

\* C30 witness: build_release succeeded and copy_artifacts raised, so that
\* build() returned False with all seven stages started
C30_Witness ==
    /\ entry = "build"
    /\ run.pc = "ended"
    /\ Len(run.started) = 7
    /\ run.success = "True"
    /\ run.does["copy_artifacts"] = "OSError"
    /\ run.returned = "False"

\* C30: build() returned True
C30_ReturnedTrue ==
    entry = "build" /\ run.pc = "ended" /\ run.returned = "True" /\ Len(run.completed) = 7

\* C30: build_release returned False and copy_artifacts was not started
C30_ReleaseFailed ==
    /\ entry = "build" /\ run.pc = "ended" /\ run.success = "False"
    /\ Len(run.started) = 6 /\ run.returned = "False"

\* C30: a stage raised a YAML error and the later stages were not started
C30_YamlError ==
    /\ entry = "build" /\ run.pc = "ended" /\ run.returned = "False"
    /\ RaisedStage = "process_templates" /\ run.does[RaisedStage] = "YAMLError"

\* C30: an exception that is not caught left build()
C30_Propagated ==
    entry = "build" /\ run.pc = "ended" /\ run.raised = "CalledProcessError"

====
